---- MODULE Spec2Model ----
(***************************************************************************)
(* A model of jobber's query lifecycle orchestrator (src/jobber/jobber.go) *)
(* over its relational store (src/db/query.sql, src/schema.sql) and the    *)
(* cron scheduler it drives.                                               *)
(*                                                                         *)
(* Time is counted in days.  A CreateQuery wait (defaultTimeOut, seconds)  *)
(* and a runQuery execution are short against a day, so the clock only     *)
(* advances while no caller waits, no run is in flight and no              *)
(* start-immediately run is due.                                           *)
(***************************************************************************)
EXTENDS Integers, FiniteSets, Sequences, Bags, TLC

VARIABLES
    now,           \* wall clock, in days
    nextId,        \* queries.id serial (never reused)
    queries,       \* table queries: its rows (the serial id tells them apart)
    offers,        \* table offers: a bag of rows
    query_offers,  \* table query_offers: a bag of rows
    status,        \* table query_scraper_status: a bag of rows
    jobs,          \* jobs registered in j.sched
    runs,          \* in-flight executions of runQuery, by worker slot
    started,       \* executions of runQuery started so far
    calls,         \* CreateQuery invocations, by caller
    listing,       \* the result a ListOffers call is handing to its caller
    scrList,       \* j.scrList: the registered source adapters, by name
    panicked       \* the process died of an unrecovered panic

\* The teardown closure NewConfigurableJobber returns, and what it acts on.
VARIABLES
    ctx,           \* j.ctx: live, or cancelled
    sched,         \* j.sched: started, stopping (in Shutdown) or stopped
    pruning,       \* a run of the task of schedDeleteOldOffers is in flight
    closer         \* the invocations of the closure: how many have returned,
                   \* and what the last one logged and whether it waited

\* The cron placement of scheduleQuery, with a clock in minutes.
VARIABLES
    clock,         \* wall clock, in minutes
    created,       \* queries.created_at of the rows, by id
    cronjobs       \* the cron expressions of the jobs registered in j.sched

\* The retrying HTTP client of the source adapters (package retryhttp).
VARIABLES
    client,        \* the Client: c.isRetryable, and what its options named
    req,           \* the *http.Request: its Body, GetBody and Context, and
                   \* the bytes it was built with
    do,            \* Client.Do: its position, its locals and what it returns
    server         \* the RoundTripper: its calls and the bodies it has read

\* The fan-out Scrape over the sources (package scrape, scraper.Scrape).
VARIABLES
    sources,       \* s.sources: what the Scrape of each source returns
    fan,           \* the goroutine of each source: its position
    recvd,         \* what each collecting goroutine has received from its
                   \* channel and not appended yet
    totalOffers,   \* totalOffers
    errs,          \* errs
    ret            \* scraper.Scrape: its position and what it returns

\* The location cache of the Glassdoor adapter (glassdoor.fetchLocation).
VARIABLES
    lCache,        \* g.lCache: the locations stored, by search term
    lookup,        \* the calls of fetchLocation in flight, by goroutine
    upstream       \* the location requests glassdoor has received, by term

\* The HTTP boundary (package server): POST /feeds and GET /feeds.
VARIABLES
    httpReq,       \* the request being served: its route and form values
    handling,      \* the handler: its position, the validated params, the
                   \* error the orchestrator returned
    passed,        \* the calls the handler has made into the orchestrator
    httpResp       \* the response written: status code and page

\* The connection of j.db to the database.
VARIABLES
    conn           \* up, or flaky: a statement may fail

\* The pagination of the Stepstone adapter (stepstone.Scrape).
VARIABLES
    pager          \* the loop: its position, i, what it has accumulated and
                   \* the pagination of the last response

\* The metrics of the orchestrator (metrics.JobberScheduledQueries).
VARIABLES
    gauge          \* scheduled_queries: the value of each label set touched

orchestrator == <<now, nextId, queries, offers, query_offers, status, jobs,
                  runs, started, calls, listing, scrList, panicked>>

teardown == <<ctx, sched, pruning, closer>>

placement == <<clock, created, cronjobs>>

transport == <<client, req, do, server>>

fanout == <<sources, fan, recvd, totalOffers, errs, ret>>

cache == <<lCache, lookup, upstream>>

boundary == <<httpReq, handling, passed, httpResp>>

store == <<conn>>

metrics == <<gauge>>

stepstone == <<pager>>

vars == <<orchestrator, teardown, placement, transport, fanout, cache, boundary, store, metrics, stepstone>>

----------------------------------------------------------------------------
(* Bounds of the model *)

MaxQueries == 2   \* query rows ever inserted
MaxJobs == 2      \* jobs the scheduler holds at once
MaxCalls == 2     \* CreateQuery invocations
MaxRuns == 2      \* runQuery executions in flight at once
MaxStarts == 3    \* runQuery executions started
MaxDays == 8      \* the clock stops here
MaxOffers == 2    \* offers one Scrape returns
MaxMinutes == 61  \* the clock in minutes stops here
MaxTeardowns == 2 \* invocations of the teardown closure
MaxSources == 2   \* sources of the fan-out Scrape
MaxLookups == 3   \* calls of fetchLocation
MaxParamLen == 2  \* characters of a form value
MaxPageCount == 2 \* pagination.pageCount of a response
MaxItems == 1     \* items of a response
IntBits == 4      \* width of the int of the page counter

(* Program constants *)

SevenDays == 7          \* time.Hour*24*7, INTERVAL '7 days'
defaultTimeOut == 10    \* seconds
FirstTickDelay == 3540  \* seconds: "M * * * *" with M the minute of created_at
                        \* next matches 59 to 60 minutes after creation

\* A nullable timestamp is the set of its values: empty when NULL.
NULL == {}
Some(t) == { t }

\* (keywords, location) pairs as the boundary passes them; the two
\* concatenate to the same tag.
Keys == { <<"a", "bc">>, <<"ab", "c">> }

\* The pairs are interchangeable; queries are created for the first of them
\* before the second.
KeyRank(k, l) == IF k = "a" THEN 1 ELSE 2

\* The source adapters a Jobber may be configured with.
Scrapers == { "s1", "s2" }

Callers == 1 .. MaxCalls
Workers == 1 .. MaxRuns

NoRun == [pc |-> "free"]
NoListing == [pc |-> "idle"]

----------------------------------------------------------------------------
(* The store: src/db/query.sql over the tables of src/schema.sql.  Each     *)
(* statement is an operator from the tables it reads to the table it       *)
(* writes.                                                                 *)

\* The rows of a table, and the table without the rows that fail a test.
Rows(tbl) == BagToSet(tbl)
Insert(tbl, r) == tbl (+) SetToBag({ r })
Restrict(tbl, keep) == [r \in Rows(tbl) \cap keep |-> tbl[r]]

\* queries without a UNIQUE constraint
NoConstraint(tbl, k, l) == FALSE

\* queries UNIQUE (keywords, location)
UniqueViolation(tbl, k, l) ==
    \E q \in tbl : q.keywords = k /\ q.location = l

\* CreateQuery :one -- INSERT INTO queries (keywords, location) RETURNING *
\* queried_at defaults to CURRENT_TIMESTAMP, updated_at to NULL.  (created_at
\* is read for its minute of the hour only, which a clock in days leaves out.)
SqlCreateQueryRow(id, k, l, t) ==
    [id |-> id, keywords |-> k, location |-> l,
     queried_at |-> t, updated_at |-> NULL]

SqlCreateQuery(tbl, id, k, l, t) ==
    IF UniqueViolation(tbl, k, l) THEN tbl
    ELSE tbl \cup { SqlCreateQueryRow(id, k, l, t) }

\* GetQuery :one -- the rows with these keywords and location (none: ErrNoRows)
SqlGetQuery(tbl, k, l) ==
    { q \in tbl : q.keywords = k /\ q.location = l }

\* ListQueries :many
SqlListQueries(tbl) == tbl

\* DeleteQuery :exec
SqlDeleteQuery(tbl, id) == { q \in tbl : q.id # id }

\* ON DELETE CASCADE of query_offers.query_id and query_scraper_status.query_id
CascadeQuery(tbl, id) ==
    Restrict(tbl, { r \in Rows(tbl) : r.query_id # id })

\* UpdateQueryQAT :exec
SqlUpdateQueryQAT(tbl, id, t) ==
    { IF q.id = id THEN [q EXCEPT !.queried_at = t] ELSE q : q \in tbl }

\* INSERT INTO offers without a conflict clause or a primary key
SqlInsertOffer(tbl, o) == Insert(tbl, o)

\* CreateOffer :exec -- INSERT ... ON CONFLICT (id) DO NOTHING
SqlCreateOffer(tbl, o) ==
    IF \E x \in Rows(tbl) : x.id = o.id THEN tbl ELSE Insert(tbl, o)

\* CreateQueryOfferAssoc :exec -- INSERT ... ON CONFLICT (query_id, offer_id)
\* DO NOTHING; the foreign keys reject a row whose query or offer does not
\* exist.
ForeignKeysHold(qs, os, qid, oid) ==
    /\ \E q \in qs : q.id = qid
    /\ \E o \in Rows(os) : o.id = oid

\* a statement that inserts no association
SqlNoAssoc(tbl, qs, os, qid, oid) == tbl

SqlCreateQueryOfferAssoc(tbl, qs, os, qid, oid) ==
    IF /\ ForeignKeysHold(qs, os, qid, oid)
       /\ ~ \E x \in Rows(tbl) : x.query_id = qid /\ x.offer_id = oid
    THEN Insert(tbl, [query_id |-> qid, offer_id |-> oid])
    ELSE tbl

\* ListOffers :many -- queries JOIN query_offers JOIN offers WHERE q.id = $1
\* (ORDER BY posted_at DESC orders the rows; the set of rows is modelled)
SqlListOffers(qs, qos, os, qid) ==
    { o \in Rows(os) : \E q \in qs : \E qo \in Rows(qos) :
          q.id = qid /\ qo.query_id = q.id /\ qo.offer_id = o.id }

\* a DELETE that takes the offers posted exactly seven days ago as well
SqlDeleteSevenDays(tbl, t) ==
    Restrict(tbl, { o \in Rows(tbl) : ~ (o.posted_at <= t - SevenDays) })

\* DeleteOldOffers :exec -- WHERE posted_at < NOW() - INTERVAL '7 days'
SqlDeleteOldOffers(tbl, t) ==
    Restrict(tbl, { o \in Rows(tbl) : ~ (o.posted_at < t - SevenDays) })

\* query_offers.offer_id without ON DELETE CASCADE
NoCascade(qos, os) == qos

\* ON DELETE CASCADE of query_offers.offer_id
CascadeOffers(qos, os) ==
    Restrict(qos, { qo \in Rows(qos) : \E o \in Rows(os) : o.id = qo.offer_id })

\* query_scraper_status without a primary key
NoStatusKey(tbl, qid, name) == FALSE

\* query_scraper_status PRIMARY KEY (query_id, scraper_name)
StatusConflict(tbl, qid, name) ==
    \E s \in Rows(tbl) : s.query_id = qid /\ s.scraper_name = name

\* GetQueryScraper :one -- inserts the (query, scraper) status row when the
\* query exists and the row does not; returns q.* joined with scraped_at.
SqlGetQueryScraperIns(tbl, qs, qid, name) ==
    IF /\ \E q \in qs : q.id = qid
       /\ ~ \E s \in Rows(tbl) : s.query_id = qid /\ s.scraper_name = name
    THEN Insert(tbl, [query_id |-> qid, scraper_name |-> name,
                      scraped_at |-> NULL])
    ELSE tbl

SqlGetQueryScraper(tbl, qs, qid, name) ==
    { [id |-> p[1].id, keywords |-> p[1].keywords, location |-> p[1].location,
       queried_at |-> p[1].queried_at, updated_at |-> p[1].updated_at,
       scraped_at |-> p[2].scraped_at] :
        p \in { p \in qs \X Rows(SqlGetQueryScraperIns(tbl, qs, qid, name)) :
                  p[1].id = qid /\ p[2].query_id = qid
                  /\ p[2].scraper_name = name } }

\* an UpdateQueryScrapedAt that matches no row
SqlNoStamp(tbl, qid, name, t) == tbl

\* UpdateQueryScrapedAt :exec
SqlScrapedAtRow(s, qid, name, t) ==
    IF s.query_id = qid /\ s.scraper_name = name
    THEN [s EXCEPT !.scraped_at = Some(t)] ELSE s

SqlUpdateQueryScrapedAt(tbl, qid, name, t) ==
    BagOfAll(LAMBDA s : SqlScrapedAtRow(s, qid, name, t), tbl)

----------------------------------------------------------------------------
(* Errors: an error value is the chain of what it wraps, outermost first.  *)

nil == <<>>

\* a timeout branch that falls through to return nil
ErrNone == <<>>

ErrNoRows == <<"sql: no rows in result set">>
ErrTimedOut == <<"operation timed out">>
ErrScrape == <<"scrape failed">>

\* context.Canceled: ctx.Err() of a cancelled context
ErrCanceled == <<"context canceled">>

\* the error of a statement the database could not execute
ErrConn == <<"conn closed">>
ErrStopSchedulerTimedOut == <<"gocron: timed out waiting for scheduler to stop">>

\* fmt.Errorf("...: %v", err)
WrapV(msg, err) == <<msg>>

\* fmt.Errorf("...: %w", err)
Wrap(msg, err) == <<msg>> \o err

\* errors.Is
ErrorsIs(err, target) ==
    \E i \in 1 .. Len(err) : SubSeq(err, i, Len(err)) = target

----------------------------------------------------------------------------
(* The scheduler (gocron) as jobber.go uses it.                            *)

\* gocron.WithTags(q.Keywords+q.Location, name)
Tags(q, name) == { q.keywords \o q.location, name }

\* One job of scheduleQuery: the task runQuery(q.ID, name), its tags, the
\* caller whose AfterJobRuns listener it carries (0: none) and whether its
\* WithStartImmediately run is still due.
Job(q, name, c, immediately) ==
    [qid |-> q.id, name |-> name, tags |-> Tags(q, name),
     call |-> c, initial |-> immediately]

\* a scheduleQuery that leaves its loop after the first scraper
scheduleFirst(js, sl, q, c, immediately) ==
    js \cup { Job(q, name, c, immediately) :
                name \in { n \in sl : \A m \in sl : n = m \/ n = "s1" } }

\* scheduleQuery: one job for every scraper of the list.
scheduleQuery(js, sl, q, c, immediately) ==
    js \cup { Job(q, name, c, immediately) : name \in sl }

\* j.sched.RemoveByTags(tag)
RemoveByTags(js, tag) == { jb \in js : tag \notin jb.tags }

\* wg.Add(1)
WgAddOne(sl) == 1

\* wg.Add(len(j.scrList))
WgAdd(sl) == Cardinality(sl)

\* The AfterJobRuns listener of CreateQuery: wg.Done().
WgDone(cs, c) ==
    IF c = 0 THEN cs ELSE [cs EXCEPT ![c].wg = @ - 1]

\* sync.WaitGroup panics when its counter becomes negative.
WgPanics(cs, c) == c # 0 /\ cs[c].wg - 1 < 0

----------------------------------------------------------------------------
\* No query has been placed.
NoPlacement ==
    /\ clock = 0
    /\ created = {}
    /\ cronjobs = {}

\* No client has been made.
NoTransport ==
    /\ client = [isRetryable |-> {}, extra |-> {}]
    /\ req = [Body |-> <<>>, GetBody |-> <<>>, ctx |-> "live",
              content |-> <<>>]
    /\ do = [pc |-> "none"]
    /\ server = [calls |-> 0, bodies |-> <<>>]

\* No fan-out Scrape is under way.
NoFanout ==
    /\ sources = <<>>
    /\ fan = <<>>
    /\ recvd = [offers |-> <<>>, errs |-> <<>>]
    /\ totalOffers = <<>>
    /\ errs = <<>>
    /\ ret = [pc |-> "none"]

\* No adapter of Glassdoor.
NoCache ==
    /\ lCache = <<>>
    /\ lookup = <<>>
    /\ upstream = <<>>

\* No server.
NoBoundary ==
    /\ httpReq = [route |-> "none"]
    /\ handling = [pc |-> "none"]
    /\ passed = <<>>
    /\ httpResp = [status |-> 0]

\* The database executes every statement.
NoFaults == conn = "up"

\* No Scrape of the Stepstone adapter has been called.
NoStepstone == pager = [pc |-> "none"]

\* No label set of the gauge has been touched.
NoMetrics == gauge = <<>>

\* No invocation of the closure yet.
NoCloser == [pc |-> "idle", n |-> 0, err |-> nil, waited |-> FALSE]

\* The Jobber of a first process, over empty tables.
InitOrchestrator ==
    /\ now = 0
    /\ nextId = 1
    /\ queries = {}
    /\ offers = EmptyBag
    /\ query_offers = EmptyBag
    /\ status = EmptyBag
    /\ jobs = {}
    /\ runs = [w \in Workers |-> NoRun]
    /\ started = 0
    /\ calls = [c \in Callers |-> [status |-> "idle"]]
    /\ listing = NoListing
    /\ panicked = FALSE
    /\ scrList \in { { "s1" }, Scrapers }
    /\ ctx = "live"
    /\ sched = "started"
    /\ pruning = FALSE
    /\ closer = NoCloser

Init ==
    /\ InitOrchestrator
    /\ NoPlacement
    /\ NoStepstone
    /\ NoMetrics
    /\ NoFaults
    /\ NoBoundary
    /\ NoCache
    /\ NoFanout
    /\ NoTransport

\* A call that has returned hands its result to the caller before anything
\* else happens.
Handing ==
    \/ listing.pc = "returned"
    \/ \E c \in Callers : calls[c].status = "returned"

\* The process runs, and no result is being handed over.
Live == ~ panicked /\ ~ Handing

\* j.ctx.Err() != nil: every statement and every Scrape given j.ctx fails.
Cancelled == ctx = "cancelled"

\* The scheduler starts runs until Shutdown is called.
Scheduling == sched = "started"

\* Time passes while the process is quiet.
Quiet ==
    /\ \A w \in Workers : runs[w].pc = "free"
    /\ \A c \in Callers : calls[c].status # "waiting"
    /\ Scheduling => \A jb \in jobs : ~ jb.initial
    /\ ~ pruning
    /\ Cancelled <=> sched = "stopped"

\* The clock is sampled at the days 0, 7, 8, 15, 16, ...: a step to the
\* seven-day boundary, then a step past it.
TickStep(t) == IF t % (SevenDays + 1) = 0 THEN SevenDays ELSE 1

Tick ==
    /\ Live
    /\ Quiet
    /\ now < MaxDays
    /\ now' = now + TickStep(now)
    /\ UNCHANGED <<nextId, queries, offers, query_offers, status, jobs, runs,
                   started, calls, listing, scrList, panicked>>
    /\ UNCHANGED <<teardown, placement, transport, fanout, cache, boundary, store, metrics, stepstone>>

----------------------------------------------------------------------------
(* Jobber.CreateQuery *)

FirstFree(c) ==
    /\ calls[c].status = "idle"
    /\ \A d \in Callers : d < c => calls[d].status # "idle"

\* The insert and, for a new row, scheduleQuery with the start-immediately
\* option and the wg.Done listener; the caller then blocks in the select.
CreateQuery(c, k, l) ==
    /\ Live
    /\ FirstFree(c)
    /\ \A key \in Keys : KeyRank(key[1], key[2]) < KeyRank(k, l)
                            => \E q \in queries : q.keywords = key[1]
                                                  /\ q.location = key[2]
    /\ IF Cancelled
       THEN /\ calls' = [calls EXCEPT ![c] =
                  [status |-> "returned",
                   err |-> Wrap("failed to create query", ErrCanceled),
                   keywords |-> k, location |-> l, qid |-> 0, wg |-> 0]]
            /\ UNCHANGED <<nextId, queries, jobs>>
       ELSE IF UniqueViolation(queries, k, l)
       THEN /\ calls' = [calls EXCEPT ![c] =
                  [status |-> "returned", err |-> nil, keywords |-> k,
                   location |-> l, qid |-> 0, wg |-> 0]]
            /\ UNCHANGED <<nextId, queries, jobs>>
       ELSE /\ nextId <= MaxQueries
            /\ Cardinality(jobs) + Cardinality(scrList) <= MaxJobs
            /\ queries' = SqlCreateQuery(queries, nextId, k, l, now)
            /\ nextId' = nextId + 1
            /\ jobs' = scheduleQuery(jobs, scrList,
                                     SqlCreateQueryRow(nextId, k, l, now),
                                     c, TRUE)
            /\ calls' = [calls EXCEPT ![c] =
                  [status |-> "waiting", err |-> nil, keywords |-> k,
                   location |-> l, qid |-> nextId, wg |-> WgAdd(scrList)]]
    /\ UNCHANGED <<now, offers, query_offers, status, runs, started, listing,
                   scrList, panicked>>
    /\ UNCHANGED <<teardown, placement, transport, fanout, cache, boundary, store, metrics, stepstone>>

\* case <-done: every wg.Done has been called
CreateQueryDone(c) ==
    /\ Live
    /\ calls[c].status = "waiting"
    /\ calls[c].wg <= 0
    /\ calls' = [calls EXCEPT ![c].status = "returned"]
    /\ UNCHANGED <<now, nextId, queries, offers, query_offers, status, jobs,
                   runs, started, listing, scrList, panicked>>
    /\ UNCHANGED <<teardown, placement, transport, fanout, cache, boundary, store, metrics, stepstone>>

\* case <-time.After(j.timeOut)
CreateQueryTimeOut(c) ==
    /\ Live
    /\ calls[c].status = "waiting"
    /\ calls' = [calls EXCEPT ![c].status = "returned", ![c].err = ErrTimedOut]
    /\ UNCHANGED <<now, nextId, queries, offers, query_offers, status, jobs,
                   runs, started, listing, scrList, panicked>>
    /\ UNCHANGED <<teardown, placement, transport, fanout, cache, boundary, store, metrics, stepstone>>

\* The caller takes the result; the WaitGroup stays with the listeners.
CreateQueryReturn(c) ==
    /\ calls[c].status = "returned"
    /\ calls' = [calls EXCEPT ![c] = [status |-> "left", wg |-> calls[c].wg]]
    /\ UNCHANGED <<now, nextId, queries, offers, query_offers, status, jobs,
                   runs, started, listing, scrList, panicked>>
    /\ UNCHANGED <<teardown, placement, transport, fanout, cache, boundary, store, metrics, stepstone>>

----------------------------------------------------------------------------
(* Jobber.ListOffers *)

\* A *pgtype.Timestamptz: the nil pointer, or a pointer to a nullable value.
nilptr == <<>>
Ref(v) == <<v>>

\* return nil, nil, fmt.Errorf("getting query in jobber.ListOffers: %w", err)
ListOffersErr(err) ==
    [offers |-> {}, ts |-> nilptr,
     err |-> Wrap("getting query in jobber.ListOffers", err)]

\* return o, &q.UpdatedAt, nil
ListOffersOk(o, q) ==
    [offers |-> o, ts |-> Ref(q.updated_at), err |-> nil]

\* return o, nil, fmt.Errorf("listing offers in jobber.ListOffers: %w", err)
ListOffersListErr(err) ==
    [offers |-> {}, ts |-> nilptr,
     err |-> Wrap("listing offers in jobber.ListOffers", err)]

\* an UpdateQueryQAT whose error is returned to the caller
QATReturned(err, res) ==
    IF err = nil THEN res
    ELSE [offers |-> {}, ts |-> nilptr,
          err |-> Wrap("updating query in jobber.ListOffers", err)]

\* if err := j.db.UpdateQueryQAT(ctx, q.ID); err != nil { j.logger.Error(...) }
\* The error is logged, and the call goes on to what follows.
QATLogged(err, res) == res

\* What the two statements after GetQuery may answer.
DbErrors == { nil, ErrConn }

\* GetQuery, UpdateQueryQAT (answering qerr) and ListOffers (answering lerr)
ListOffers(k, l, qerr, lerr) ==
    /\ Live
    /\ listing.pc = "idle"
    /\ IF SqlGetQuery(queries, k, l) = {}
       THEN /\ qerr = nil /\ lerr = nil
            /\ listing' = [pc |-> "returned", keywords |-> k, location |-> l,
                           qid |-> 0, qerr |-> nil, lerr |-> nil,
                           res |-> ListOffersErr(ErrNoRows)]
            /\ UNCHANGED queries
       ELSE LET q == CHOOSE q \in SqlGetQuery(queries, k, l) : TRUE IN
            /\ queries' = IF qerr = nil
                          THEN SqlUpdateQueryQAT(queries, q.id, now)
                          ELSE queries
            /\ listing' = [pc |-> "returned", keywords |-> k, location |-> l,
                           qid |-> q.id, qerr |-> qerr, lerr |-> lerr,
                           res |-> QATLogged(qerr,
                                      IF lerr = nil
                                      THEN ListOffersOk(
                                              SqlListOffers(queries',
                                                  query_offers, offers, q.id),
                                              q)
                                      ELSE ListOffersListErr(lerr))]
    /\ UNCHANGED <<now, nextId, offers, query_offers, status, jobs, runs,
                   started, calls, scrList, panicked>>
    /\ UNCHANGED <<teardown, placement, transport, fanout, cache, boundary, store, metrics, stepstone>>

\* The caller takes the result.
ListOffersReturn ==
    /\ listing.pc = "returned"
    /\ listing' = NoListing
    /\ UNCHANGED <<now, nextId, queries, offers, query_offers, status, jobs,
                   runs, started, calls, scrList, panicked>>
    /\ UNCHANGED <<teardown, placement, transport, fanout, cache, boundary, store, metrics, stepstone>>

----------------------------------------------------------------------------
(* Jobber.runQuery, one database or adapter call per step *)

FirstFreeWorker(w) ==
    /\ runs[w].pc = "free"
    /\ \A v \in Workers : v < w => runs[v].pc # "free"

\* a runQuery without the check of the unused query
NeverExpired(q, t) == FALSE

\* time.Since(q.QueriedAt.Time) > time.Hour*24*7
Expired(q, t) == t - q.queried_at > SevenDays

\* A cron tick of a job comes an hour after its query was created, at the
\* earliest FirstTickDelay after; the caller of CreateQuery has left its
\* select by then when j.timeOut is shorter.
CronMayTick(jb) ==
    IF jb.call = 0 \/ ~ (defaultTimeOut < FirstTickDelay) THEN TRUE
    ELSE calls[jb.call].status # "waiting"

\* The run returns: its slot is free again and the job's AfterJobRuns
\* listener fires.
Returned(w, c) ==
    /\ runs' = [runs EXCEPT ![w] = NoRun]
    /\ calls' = WgDone(calls, c)
    /\ panicked' = WgPanics(calls, c)

\* The scheduler starts a run of jb (its start-immediately run, or a cron
\* tick); the run looks its query up and checks the expiration.
StartRun(w, jb) ==
    /\ Live
    /\ FirstFreeWorker(w)
    /\ started < MaxStarts
    /\ started' = started + 1
    /\ jb \in jobs
    /\ Scheduling
    /\ jb.initial \/ CronMayTick(jb)
    /\ jobs' = (jobs \ { jb }) \cup { [jb EXCEPT !.initial = FALSE] }
    /\ status' = IF Cancelled THEN status
                 ELSE SqlGetQueryScraperIns(status, queries, jb.qid, jb.name)
    /\ LET rows == IF Cancelled THEN {}
                   ELSE SqlGetQueryScraper(status, queries, jb.qid, jb.name)
       IN
       IF rows = {}
       THEN /\ runs' = runs
            /\ calls' = WgDone(calls, jb.call)
            /\ panicked' = WgPanics(calls, jb.call)
       ELSE LET q == CHOOSE q \in rows : TRUE IN
            /\ runs' = [runs EXCEPT ![w] =
                  [pc |-> IF Expired(q, now) THEN "delete" ELSE "scrape",
                   qid |-> jb.qid, name |-> jb.name, call |-> jb.call,
                   initial |-> jb.initial, keywords |-> q.keywords,
                   location |-> q.location, offers |-> <<>>, err |-> nil,
                   stmt |-> nil, i |-> 0]]
            /\ UNCHANGED <<calls, panicked>>
    /\ UNCHANGED <<now, nextId, queries, offers, query_offers, listing,
                   scrList>>
    /\ UNCHANGED <<teardown, placement, transport, fanout, cache, boundary, store, metrics, stepstone>>

\* The error of a statement of a run: nil, or the error of a
\* connection that is flaky.
StatementErrors == IF conn = "flaky" THEN { nil, ErrConn } ELSE { nil }

\* the error j.db returns: that of the cancelled context, or the statement's
StatementErr(err) == IF Cancelled THEN ErrCanceled ELSE err

\* j.db.DeleteQuery(q.ID), with its cascades; its error is only logged
RunDelete(w) ==
    /\ Live
    /\ runs[w].pc = "delete"
    /\ \E err \in StatementErrors :
         IF StatementErr(err) # nil
         THEN UNCHANGED <<queries, query_offers, status>>
         ELSE /\ queries' = SqlDeleteQuery(queries, runs[w].qid)
              /\ query_offers' = CascadeQuery(query_offers, runs[w].qid)
              /\ status' = CascadeQuery(status, runs[w].qid)
    /\ runs' = [runs EXCEPT ![w].pc = "remove"]
    /\ UNCHANGED <<now, nextId, offers, jobs, started, calls, listing,
                   scrList, panicked>>
    /\ UNCHANGED <<teardown, placement, transport, fanout, cache, boundary, store, metrics, stepstone>>

\* j.sched.RemoveByTags(q.Keywords + q.Location); return
RunRemove(w) ==
    /\ Live
    /\ runs[w].pc = "remove"
    /\ \/ jobs' = RemoveByTags(jobs, runs[w].keywords \o runs[w].location)
       \/ ~ Scheduling /\ jobs' = jobs
    /\ Returned(w, runs[w].call)
    /\ UNCHANGED <<now, nextId, queries, offers, query_offers, status,
                   started, listing, scrList>>
    /\ UNCHANGED <<teardown, placement, transport, fanout, cache, boundary, store, metrics, stepstone>>

\* The offers the portals carry: X, posted the day the clock starts, and Y,
\* posted more than seven days before it.
OfferParams ==
    { [id |-> "X", posted_at |-> 0],
      [id |-> "Y", posted_at |-> 0 - SevenDays - 1] }

Rank(id) == IF id = "X" THEN 1 ELSE 2

\* The offer lists an adapter may hand back: up to MaxOffers of them, in the
\* order of their ids.
OfferLists ==
    { os \in UNION { [1 .. n -> OfferParams] : n \in 0 .. MaxOffers } :
         \A i, j \in 1 .. Len(os) : i < j => Rank(os[i].id) < Rank(os[j].id) }

\* What Scrape may return: any list without an error, and the empty list and
\* the list of every offer with one.
ScrapeResults ==
    { [offers |-> os, err |-> nil] : os \in OfferLists }
    \cup { [offers |-> os, err |-> ErrScrape] :
             os \in { x \in OfferLists :
                        Len(x) \in { 0, Cardinality(OfferParams) } } }

\* a loop that goes on to the association after a CreateOffer that failed
AssocAnyway(err) == "assoc"

\* if err := j.db.CreateOffer(j.ctx, &o); err != nil { ...; continue }
AfterCreateOffer(err) == IF err # nil THEN "continue" ELSE "assoc"

\* a loop that ends after its first offer
RangeBreak(i, n) == "stamp"

\* for _, o := range offers: after offer i of n, the next one or the end
RangeNext(i, n) == IF i < n THEN "offer" ELSE "stamp"

\* offers, err := s.Scrape(j.ctx, q); the error is only logged.  With no
\* offer the run returns; otherwise it goes on to j.db.CreateOffer(j.ctx, &o)
\* for the first one.
RunScrape(w) ==
    /\ Live
    /\ runs[w].pc = "scrape"
    /\ \E r \in ScrapeResults : \E err \in StatementErrors :
          IF Len(r.offers) > 0
          THEN /\ offers' = IF StatementErr(err) # nil THEN offers
                            ELSE SqlCreateOffer(offers, r.offers[1])
               /\ runs' = [runs EXCEPT
                             ![w].pc = AfterCreateOffer(StatementErr(err)),
                             ![w].stmt = StatementErr(err),
                             ![w].offers = r.offers,
                             ![w].err = r.err, ![w].i = 1]
               /\ UNCHANGED <<calls, panicked>>
          ELSE /\ Returned(w, runs[w].call)
               /\ UNCHANGED offers
    /\ UNCHANGED <<now, nextId, queries, query_offers, status, jobs, started,
                   listing, scrList>>
    /\ UNCHANGED <<teardown, placement, transport, fanout, cache, boundary, store, metrics, stepstone>>

\* j.db.CreateOffer(j.ctx, &o) for a further offer
RunCreateOffer(w) ==
    /\ Live
    /\ runs[w].pc = "offer"
    /\ \E err \in StatementErrors :
         /\ offers' = IF StatementErr(err) # nil THEN offers
                      ELSE SqlCreateOffer(offers, runs[w].offers[runs[w].i])
         /\ runs' = [runs EXCEPT
                       ![w].pc = AfterCreateOffer(StatementErr(err)),
                       ![w].stmt = StatementErr(err)]
    /\ UNCHANGED <<now, nextId, queries, query_offers, status, jobs, started,
                   calls, listing, scrList, panicked>>
    /\ UNCHANGED <<teardown, placement, transport, fanout, cache, boundary, store, metrics, stepstone>>

\* j.db.CreateQueryOfferAssoc(j.ctx, {q.ID, o.ID}); next offer.  (After a
\* CreateOffer that failed, continue: the next offer without the statement.)
RunCreateQueryOfferAssoc(w) ==
    /\ Live
    /\ runs[w].pc \in { "assoc", "continue" }
    /\ \E err \in IF runs[w].pc = "continue" THEN { runs[w].stmt }
                    ELSE { StatementErr(e) : e \in StatementErrors } :
         /\ query_offers' = IF err # nil THEN query_offers
                            ELSE SqlCreateQueryOfferAssoc(query_offers,
                                    queries, offers, runs[w].qid,
                                    runs[w].offers[runs[w].i].id)
         /\ runs' = [runs EXCEPT
                  ![w].pc = RangeNext(runs[w].i, Len(runs[w].offers)),
                  ![w].stmt = err,
                  ![w].i = IF RangeNext(runs[w].i, Len(runs[w].offers)) = "offer"
                           THEN @ + 1 ELSE @]
    /\ UNCHANGED <<now, nextId, queries, offers, status, jobs, started, calls,
                   listing, scrList, panicked>>
    /\ UNCHANGED <<teardown, placement, transport, fanout, cache, boundary, store, metrics, stepstone>>

\* j.db.UpdateQueryScrapedAt(j.ctx, {qID, scraperName}); return
RunUpdateQueryScrapedAt(w) ==
    /\ Live
    /\ runs[w].pc = "stamp"
    /\ \E err \in StatementErrors :
         status' = IF StatementErr(err) # nil THEN status
                   ELSE SqlUpdateQueryScrapedAt(status, runs[w].qid,
                                                runs[w].name, now)
    /\ Returned(w, runs[w].call)
    /\ UNCHANGED <<now, nextId, queries, offers, query_offers, jobs, started,
                   listing, scrList>>
    /\ UNCHANGED <<teardown, placement, transport, fanout, cache, boundary, store, metrics, stepstone>>

----------------------------------------------------------------------------
\* schedDeleteOldOffers: a run of the task registered at "0 2 * * *".  (The
\* statement failing is logged, and leaves every table as it is.)
DeleteOldOffers ==
    /\ Live
    /\ Scheduling /\ ~ Cancelled /\ ~ pruning
    /\ offers' = SqlDeleteOldOffers(offers, now)
    /\ query_offers' = CascadeOffers(query_offers,
                                     SqlDeleteOldOffers(offers, now))
    /\ UNCHANGED <<now, nextId, queries, status, jobs, runs, started, calls,
                   listing, scrList, panicked>>
    /\ UNCHANGED <<teardown, placement, transport, fanout, cache, boundary, store, metrics, stepstone>>

\* NewConfigurableJobber in a new process over the same database: every
\* listed query is scheduled again, without listener or immediate run, and
\* the task of schedDeleteOldOffers, registered WithStartImmediately, runs as
\* the scheduler starts.  (The first process starts over empty tables.)
Rescheduled(qs, sl) ==
    UNION { scheduleQuery({}, sl, q, 0, FALSE) : q \in SqlListQueries(qs) }

NewConfigurableJobber ==
    /\ panicked /\ ~ Handing
    /\ panicked' = FALSE
    /\ ctx' = "live" /\ sched' = "started" /\ pruning' = FALSE
    /\ closer' = NoCloser
    /\ jobs' = Rescheduled(queries, scrList)
    /\ runs' = [w \in Workers |-> NoRun]
    /\ calls' = [c \in Callers |->
                    IF calls[c].status = "waiting"
                    THEN [calls[c] EXCEPT !.status = "lost"] ELSE calls[c]]
    /\ listing' = NoListing
    /\ offers' = SqlDeleteOldOffers(offers, now)
    /\ query_offers' = CascadeOffers(query_offers,
                                     SqlDeleteOldOffers(offers, now))
    /\ UNCHANGED <<now, nextId, queries, status, started, scrList>>
    /\ UNCHANGED <<placement, transport, fanout, cache, boundary, store, metrics, stepstone>>

----------------------------------------------------------------------------
Next ==
    \/ Tick
    \/ \E c \in Callers : \E key \in Keys : CreateQuery(c, key[1], key[2])
    \/ \E c \in Callers : CreateQueryDone(c)
    \/ \E c \in Callers : CreateQueryTimeOut(c)
    \/ \E c \in Callers : CreateQueryReturn(c)
    \/ \E key \in Keys : \E qerr, lerr \in DbErrors :
          ListOffers(key[1], key[2], qerr, lerr)
    \/ ListOffersReturn
    \/ \E w \in Workers : \E jb \in jobs : StartRun(w, jb)
    \/ \E w \in Workers : RunDelete(w)
    \/ \E w \in Workers : RunRemove(w)
    \/ \E w \in Workers : RunScrape(w)
    \/ \E w \in Workers : RunCreateOffer(w)
    \/ \E w \in Workers : RunCreateQueryOfferAssoc(w)
    \/ \E w \in Workers : RunUpdateQueryScrapedAt(w)
    \/ DeleteOldOffers
    \/ NewConfigurableJobber

Spec == Init /\ [][Next]_vars

----------------------------------------------------------------------------
(* The orchestrator over a connection that is flaky: a CreateOffer or a    *)
(* CreateQueryOfferAssoc of a run may fail.  One source is registered, and *)
(* callers create the one query.                                           *)

InitBatch ==
    /\ InitOrchestrator /\ scrList = { "s1" }
    /\ NoPlacement
    /\ NoStepstone
    /\ NoMetrics
    /\ NoTransport
    /\ NoFanout
    /\ NoCache
    /\ NoBoundary
    /\ conn = "flaky"

NextBatch ==
    \/ Tick
    \/ \E c \in Callers : CreateQuery(c, "a", "bc")
    \/ \E c \in Callers : CreateQueryDone(c)
    \/ \E c \in Callers : CreateQueryTimeOut(c)
    \/ \E c \in Callers : CreateQueryReturn(c)
    \/ \E w \in Workers : \E jb \in jobs : StartRun(w, jb)
    \/ \E w \in Workers : RunDelete(w)
    \/ \E w \in Workers : RunRemove(w)
    \/ \E w \in Workers : RunScrape(w)
    \/ \E w \in Workers : RunCreateOffer(w)
    \/ \E w \in Workers : RunCreateQueryOfferAssoc(w)
    \/ \E w \in Workers : RunUpdateQueryScrapedAt(w)
    \/ DeleteOldOffers

SpecBatch == InitBatch /\ [][NextBatch]_vars

\* The same, with the process started again after it has died.
NextRetry ==
    \/ NextBatch
    \/ NewConfigurableJobber

SpecRetry == InitBatch /\ [][NextRetry]_vars

----------------------------------------------------------------------------
(* scheduleQuery with a scheduler that rejects jobs.  j.sched.NewJob may   *)
(* return an error for any of the scrapers of the list; which ones is an   *)
(* input here.  The select of CreateQuery takes its time.After case at     *)
(* the latest when the timer fires.                                        *)

\* a scheduleQuery that returns at the first error of NewJob
NoneAfterError(sl, rej) == IF rej = {} THEN sl ELSE {}

\* if err != nil { ...; continue }: the scrapers whose job is registered
Accepted(sl, rej) == sl \ rej

\* CreateQuery of a new row when NewJob fails for the scrapers of rej:
\* wg.Add(len(j.scrList)) counts them all the same.
CreateQueryRejecting(c, k, l, rej) ==
    /\ Live
    /\ FirstFree(c)
    /\ \A key \in Keys : KeyRank(key[1], key[2]) < KeyRank(k, l)
                            => \E q \in queries : q.keywords = key[1]
                                                  /\ q.location = key[2]
    /\ ~ Cancelled
    /\ ~ UniqueViolation(queries, k, l)
    /\ rej # {} /\ rej \subseteq scrList
    /\ nextId <= MaxQueries
    /\ Cardinality(jobs) + Cardinality(Accepted(scrList, rej)) <= MaxJobs
    /\ queries' = SqlCreateQuery(queries, nextId, k, l, now)
    /\ nextId' = nextId + 1
    /\ jobs' = scheduleQuery(jobs, Accepted(scrList, rej),
                             SqlCreateQueryRow(nextId, k, l, now), c, TRUE)
    /\ calls' = [calls EXCEPT ![c] =
          [status |-> "waiting", err |-> nil, keywords |-> k,
           location |-> l, qid |-> nextId, wg |-> WgAdd(scrList),
           rejected |-> rej]]
    /\ UNCHANGED <<now, offers, query_offers, status, runs, started, listing,
                   scrList, panicked>>
    /\ UNCHANGED <<teardown, placement, transport, fanout, cache, boundary, store, metrics, stepstone>>

InitReject ==
    /\ InitOrchestrator /\ scrList = Scrapers
    /\ NoPlacement
    /\ NoStepstone
    /\ NoMetrics
    /\ NoTransport
    /\ NoFanout
    /\ NoCache
    /\ NoBoundary
    /\ NoFaults

NextReject ==
    \/ \E c \in Callers : \E key \in Keys : CreateQuery(c, key[1], key[2])
    \/ \E c \in Callers : \E key \in Keys : \E rej \in SUBSET Scrapers :
          CreateQueryRejecting(c, key[1], key[2], rej)
    \/ \E c \in Callers : CreateQueryDone(c)
    \/ \E c \in Callers : CreateQueryTimeOut(c)
    \/ \E c \in Callers : CreateQueryReturn(c)
    \/ \E w \in Workers : \E jb \in jobs : StartRun(w, jb)
    \/ \E w \in Workers : RunScrape(w)
    \/ \E w \in Workers : RunCreateOffer(w)
    \/ \E w \in Workers : RunCreateQueryOfferAssoc(w)
    \/ \E w \in Workers : RunUpdateQueryScrapedAt(w)

\* time.After(j.timeOut) fires, and a call that has its result returns.
SpecReject ==
    /\ InitReject /\ [][NextReject]_vars
    /\ \A c \in Callers : WF_vars(CreateQueryTimeOut(c))
    /\ \A c \in Callers : WF_vars(CreateQueryReturn(c))

----------------------------------------------------------------------------
(* GetQueryScraper under concurrent calls.  The statement reads the tables *)
(* as they are when it starts (q, and the NOT EXISTS of ins) and inserts   *)
(* after that; two calls for one pair can both find no row.  The primary   *)
(* key then lets one insert through and fails the other, and runQuery      *)
(* returns on the error.  The run of a job is taken in these two steps     *)
(* here; everything else is as in the batch above, on a connection that    *)
(* does not fail.                                                          *)

InitOverlap ==
    /\ InitOrchestrator /\ scrList = { "s1" }
    /\ NoPlacement
    /\ NoStepstone
    /\ NoMetrics
    /\ NoTransport
    /\ NoFanout
    /\ NoCache
    /\ NoBoundary
    /\ NoFaults

\* The scheduler starts a run of jb; GetQueryScraper reads q and whether the
\* pair has its status row.
GetQueryScraperRead(w, jb) ==
    /\ Live
    /\ FirstFreeWorker(w)
    /\ started < MaxStarts
    /\ started' = started + 1
    /\ jb \in jobs
    /\ Scheduling
    /\ jb.initial \/ CronMayTick(jb)
    /\ jobs' = (jobs \ { jb }) \cup { [jb EXCEPT !.initial = FALSE] }
    /\ LET qs == IF Cancelled THEN {}
                 ELSE { q \in queries : q.id = jb.qid }
       IN
       IF qs = {}
       THEN /\ runs' = runs
            /\ calls' = WgDone(calls, jb.call)
            /\ panicked' = WgPanics(calls, jb.call)
       ELSE /\ runs' = [runs EXCEPT ![w] =
                  [pc |-> "get", qid |-> jb.qid, name |-> jb.name,
                   call |-> jb.call, initial |-> jb.initial,
                   q |-> CHOOSE q \in qs : TRUE,
                   seen |-> StatusConflict(status, jb.qid, jb.name)]]
            /\ UNCHANGED <<calls, panicked>>
    /\ UNCHANGED <<now, nextId, queries, offers, query_offers, status,
                   listing, scrList>>
    /\ UNCHANGED <<teardown, placement, transport, fanout, cache, boundary, store, metrics, stepstone>>

\* ins of GetQueryScraper, and the check of the expiration on the row read.
\* The insert fails on the primary key when the row has appeared since the
\* read, and on the foreign key when the query has gone.
GetQueryScraperWrite(w) ==
    /\ Live
    /\ runs[w].pc = "get"
    /\ IF /\ ~ runs[w].seen
          /\ \/ StatusConflict(status, runs[w].qid, runs[w].name)
             \/ ~ \E q \in queries : q.id = runs[w].qid
       THEN /\ Returned(w, runs[w].call)
            /\ UNCHANGED status
       ELSE /\ status' = IF runs[w].seen THEN status
                         ELSE Insert(status, [query_id |-> runs[w].qid,
                                              scraper_name |-> runs[w].name,
                                              scraped_at |-> NULL])
            /\ runs' = [runs EXCEPT ![w] =
                  [pc |-> IF Expired(runs[w].q, now) THEN "delete"
                          ELSE "scrape",
                   qid |-> runs[w].qid, name |-> runs[w].name,
                   call |-> runs[w].call, initial |-> runs[w].initial,
                   keywords |-> runs[w].q.keywords,
                   location |-> runs[w].q.location, offers |-> <<>>,
                   err |-> nil, stmt |-> nil, i |-> 0]]
            /\ UNCHANGED <<calls, panicked>>
    /\ UNCHANGED <<now, nextId, queries, offers, query_offers, jobs, started,
                   listing, scrList>>
    /\ UNCHANGED <<teardown, placement, transport, fanout, cache, boundary, store, metrics, stepstone>>

NextOverlap ==
    \/ Tick
    \/ \E c \in Callers : CreateQuery(c, "a", "bc")
    \/ \E c \in Callers : CreateQueryDone(c)
    \/ \E c \in Callers : CreateQueryTimeOut(c)
    \/ \E c \in Callers : CreateQueryReturn(c)
    \/ \E w \in Workers : \E jb \in jobs : GetQueryScraperRead(w, jb)
    \/ \E w \in Workers : GetQueryScraperWrite(w)
    \/ \E w \in Workers : RunDelete(w)
    \/ \E w \in Workers : RunRemove(w)
    \/ \E w \in Workers : RunScrape(w)
    \/ \E w \in Workers : RunCreateOffer(w)
    \/ \E w \in Workers : RunCreateQueryOfferAssoc(w)
    \/ \E w \in Workers : RunUpdateQueryScrapedAt(w)
    \/ DeleteOldOffers

SpecOverlap == InitOverlap /\ [][NextOverlap]_vars

----------------------------------------------------------------------------
(* The teardown closure of NewConfigurableJobber: cancelCtx(), then        *)
(* j.sched.Shutdown().  The run of the prune task is taken in two steps    *)
(* here, its start and its statement, so that it can be in flight.         *)

\* The closure has called cancelCtx() when it calls j.sched.Shutdown().
AfterCancel(c) == c = "cancelled"

\* a Shutdown that does not wait for the runs in flight
NoWait(rs, p) == TRUE

\* Shutdown returns when the runs in flight have returned.
Drained(rs, p) == (\A w \in Workers : rs[w].pc = "free") /\ ~ p

\* cancelCtx()
CancelCtx ==
    /\ Live
    /\ ctx = "live" /\ sched = "started"
    /\ ctx' = "cancelled"
    /\ UNCHANGED <<sched, pruning, closer>>
    /\ UNCHANGED <<orchestrator, placement, transport, fanout, cache, boundary, store, metrics, stepstone>>

\* j.sched.Shutdown() is called: the scheduler starts no run any more.
Shutdown ==
    /\ Live
    /\ sched = "started" /\ AfterCancel(ctx)
    /\ sched' = "stopping"
    /\ closer' = [closer EXCEPT !.pc = "shutdown"]
    /\ UNCHANGED <<ctx, pruning>>
    /\ UNCHANGED <<orchestrator, placement, transport, fanout, cache, boundary, store, metrics, stepstone>>

\* j.sched.Shutdown() returns, and the closure with it.
ShutdownReturns ==
    /\ Live
    /\ sched = "stopping" /\ Drained(runs, pruning)
    /\ sched' = "stopped"
    /\ closer' = [pc |-> "idle", n |-> closer.n + 1, err |-> nil,
                  waited |-> FALSE]
    /\ UNCHANGED <<ctx, pruning>>
    /\ UNCHANGED <<orchestrator, placement, transport, fanout, cache, boundary, store, metrics, stepstone>>

\* The closure is invoked again after it has returned: cancelCtx() on the
\* cancelled context does nothing, and j.sched.Shutdown() is called on the
\* scheduler that is shut down.
TeardownAgain ==
    /\ Live
    /\ sched = "stopped" /\ closer.pc = "idle" /\ closer.n < MaxTeardowns
    /\ closer' = [closer EXCEPT !.pc = "shutdown"]
    /\ UNCHANGED <<ctx, sched, pruning>>
    /\ UNCHANGED <<orchestrator, placement, transport, fanout, cache, boundary, store, metrics, stepstone>>

\* Shutdown on a scheduler that is shut down.  The closure has no guard of
\* its own (no sync.Once, no flag), so what the second call does is what
\* gocron does: its Shutdown cancels the scheduler's context and then waits
\* for the stop result of the scheduler goroutine or for the stop timeout
\* plus a second.  The goroutine reported its stop to the first call and
\* has ended; the module's source is not part of the repository, so both
\* outcomes are kept: the call returns nil at once, or it waits for the
\* timeout and returns ErrStopSchedulerTimedOut, which the closure logs.
ShutdownAgainReturns ==
    /\ Live
    /\ sched = "stopped" /\ closer.pc = "shutdown"
    /\ \E timedOut \in BOOLEAN :
         closer' = [pc |-> "idle", n |-> closer.n + 1,
                    err |-> IF timedOut THEN ErrStopSchedulerTimedOut
                            ELSE nil,
                    waited |-> timedOut]
    /\ UNCHANGED <<ctx, sched, pruning>>
    /\ UNCHANGED <<orchestrator, placement, transport, fanout, cache, boundary, store, metrics, stepstone>>

\* The scheduler starts a run of the task of schedDeleteOldOffers.
PruneStarts ==
    /\ Live
    /\ Scheduling /\ ~ pruning
    /\ pruning' = TRUE
    /\ UNCHANGED <<ctx, sched, closer>>
    /\ UNCHANGED <<orchestrator, placement, transport, fanout, cache, boundary, store, metrics, stepstone>>

\* j.db.DeleteOldOffers(j.ctx); the error of a cancelled context is logged.
PruneDeletes ==
    /\ Live
    /\ pruning
    /\ pruning' = FALSE
    /\ IF Cancelled THEN UNCHANGED <<offers, query_offers>>
       ELSE /\ offers' = SqlDeleteOldOffers(offers, now)
            /\ query_offers' = CascadeOffers(query_offers,
                                             SqlDeleteOldOffers(offers, now))
    /\ UNCHANGED <<now, nextId, queries, status, jobs, runs, started, calls,
                   listing, scrList, panicked>>
    /\ UNCHANGED <<ctx, sched, closer>>
    /\ UNCHANGED <<placement, transport, fanout, cache, boundary, store, metrics, stepstone>>

\* One source is registered, and callers create the one query.
InitTeardown ==
    /\ Init
    /\ scrList = { "s1" }

NextTeardown ==
    \/ Tick
    \/ \E c \in Callers : CreateQuery(c, "a", "bc")
    \/ \E c \in Callers : CreateQueryDone(c)
    \/ \E c \in Callers : CreateQueryTimeOut(c)
    \/ \E c \in Callers : CreateQueryReturn(c)
    \/ \E w \in Workers : \E jb \in jobs : StartRun(w, jb)
    \/ \E w \in Workers : RunDelete(w)
    \/ \E w \in Workers : RunRemove(w)
    \/ \E w \in Workers : RunScrape(w)
    \/ \E w \in Workers : RunCreateOffer(w)
    \/ \E w \in Workers : RunCreateQueryOfferAssoc(w)
    \/ \E w \in Workers : RunUpdateQueryScrapedAt(w)
    \/ PruneStarts
    \/ PruneDeletes
    \/ CancelCtx
    \/ Shutdown
    \/ ShutdownReturns
    \/ TeardownAgain
    \/ ShutdownAgainReturns
    \/ NewConfigurableJobber

SpecTeardown == InitTeardown /\ [][NextTeardown]_vars

\* The teardown against callers in the select of CreateQuery.  Everything
\* but the timer of the select takes its step when it can: the runs, the
\* closing of done, the returns, and the closure once it has been invoked.
NextRelease ==
    \/ \E c \in Callers : CreateQuery(c, "a", "bc")
    \/ \E c \in Callers : CreateQueryDone(c)
    \/ \E c \in Callers : CreateQueryTimeOut(c)
    \/ \E c \in Callers : CreateQueryReturn(c)
    \/ \E w \in Workers : \E jb \in jobs : StartRun(w, jb)
    \/ \E w \in Workers : RunScrape(w)
    \/ \E w \in Workers : RunCreateOffer(w)
    \/ \E w \in Workers : RunCreateQueryOfferAssoc(w)
    \/ \E w \in Workers : RunUpdateQueryScrapedAt(w)
    \/ CancelCtx
    \/ Shutdown
    \/ ShutdownReturns

SpecRelease ==
    /\ InitTeardown /\ [][NextRelease]_vars
    /\ \A c \in Callers : WF_vars(CreateQueryDone(c))
    /\ \A c \in Callers : WF_vars(CreateQueryReturn(c))
    /\ \A w \in Workers : WF_vars(\E jb \in jobs : StartRun(w, jb))
    /\ \A w \in Workers : WF_vars(RunScrape(w))
    /\ \A w \in Workers : WF_vars(RunCreateOffer(w))
    /\ \A w \in Workers : WF_vars(RunCreateQueryOfferAssoc(w))
    /\ \A w \in Workers : WF_vars(RunUpdateQueryScrapedAt(w))
    /\ WF_vars(Shutdown) /\ WF_vars(ShutdownReturns)

----------------------------------------------------------------------------
(* The cron placement of a query: scheduleQuery with times in minutes.     *)
(* Strings are sequences of characters.                                    *)

\* a minute that is not taken modulo the hour
MinuteOfDay(t) == t % 1440

\* Time.Minute(): the minute offset within the hour
Minute(t) == t % 60

DigitChars == <<"0", "1", "2", "3", "4", "5", "6", "7", "8", "9">>

\* the verb %d of fmt.Sprintf, for a number that is not negative
RECURSIVE Itoa(_)
Itoa(n) ==
    IF n < 10 THEN <<DigitChars[n + 1]>>
    ELSE Itoa(n \div 10) \o <<DigitChars[(n % 10) + 1]>>

\* fmt.Sprintf("%d * * * *", q.CreatedAt.Time.Minute())
CronExpr(q) ==
    Itoa(Minute(q.created_at)) \o <<" ", "*", " ", "*", " ", "*", " ", "*">>

\* The jobs of scheduleQuery for q, with their cron expressions.
PlaceQuery(q, sl) ==
    { [qid |-> q.id, name |-> name, cron |-> CronExpr(q)] : name \in sl }

InitPlacement ==
    /\ InitOrchestrator /\ scrList = Scrapers
    /\ NoPlacement
    /\ NoStepstone
    /\ NoMetrics
    /\ NoFaults
    /\ NoBoundary
    /\ NoCache
    /\ NoFanout
    /\ NoTransport

\* A minute passes.
Minutes ==
    /\ clock < MaxMinutes
    /\ clock' = clock + 1
    /\ UNCHANGED <<created, cronjobs>>
    /\ UNCHANGED <<orchestrator, teardown, transport, fanout, cache, boundary, store, metrics, stepstone>>

\* CreateQuery in a running process: the row is inserted with created_at =
\* CURRENT_TIMESTAMP and scheduled.
PlaceCreated ==
    /\ created = {} \/ cronjobs # {}
    /\ Cardinality(created) < MaxQueries
    /\ LET q == [id |-> Cardinality(created) + 1, created_at |-> clock] IN
          /\ created' = created \cup { q }
          /\ cronjobs' = cronjobs \cup PlaceQuery(q, scrList)
    /\ UNCHANGED clock
    /\ UNCHANGED <<orchestrator, teardown, transport, fanout, cache, boundary, store, metrics, stepstone>>

\* The process ends, and its scheduler with it.
PlaceNone ==
    /\ cronjobs # {}
    /\ cronjobs' = {}
    /\ UNCHANGED <<clock, created>>
    /\ UNCHANGED <<orchestrator, teardown, transport, fanout, cache, boundary, store, metrics, stepstone>>

\* NewConfigurableJobber: a new scheduler, and every row scheduled again.
PlaceListed ==
    /\ created # {} /\ cronjobs = {}
    /\ cronjobs' = UNION { PlaceQuery(q, scrList) : q \in created }
    /\ UNCHANGED <<clock, created>>
    /\ UNCHANGED <<orchestrator, teardown, transport, fanout, cache, boundary, store, metrics, stepstone>>

NextPlacement ==
    \/ Minutes
    \/ PlaceCreated
    \/ PlaceNone
    \/ PlaceListed

SpecPlacement == InitPlacement /\ [][NextPlacement]_vars

----------------------------------------------------------------------------
(* The retrying HTTP client: package retryhttp (src/unnamed/part_007).      *)

maxRetries == 5

\* the statuses retryhttp retried before the option existed
WithForbidden == { 408, 425, 429, 500, 502, 503, 504, 403 }

\* The isRetryable map of New: StatusRequestTimeout, StatusTooEarly,
\* StatusTooManyRequests, StatusInternalServerError, StatusBadGateway,
\* StatusServiceUnavailable, StatusGatewayTimeout.
DefaultRetryable == { 408, 425, 429, 500, 502, 503, 504 }

\* WithExtraRetryableStatus(status): c.isRetryable[v] = true for each v
WithExtraRetryableStatus(isRetryable, codes) == isRetryable \cup codes

\* New(opts...), with the statuses its options name
New(codes) ==
    [isRetryable |-> WithExtraRetryableStatus(DefaultRetryable, codes),
     extra |-> codes]

\* What a server may answer, and what an option may add.
Statuses == DefaultRetryable \cup { 200, 400, 403 }
ExtraStatuses == { 400, 403 }

\* An io.Reader over bytes: what is left to read starts at pos.
NewReader(b) == [data |-> b, pos |-> 1]
ReadAll(r) == SubSeq(r.data, r.pos, Len(r.data))
AtEOF(r) == [r EXCEPT !.pos = Len(r.data) + 1]

\* The bodies a request is built with: nil, an empty one, one of two bytes.
RequestBodies == { <<>>, <<NewReader(<<>>)>>, <<NewReader(<<"c", "u">>)>> }

ErrRetryable == <<"too many retries">>
ErrRead == <<"read failed">>
ErrRoundTrip == <<"round trip failed">>

\* an outcome of RoundTrip that is an error, not a response
NoResponse == 0

InitTransport ==
    /\ InitOrchestrator /\ scrList = Scrapers
    /\ NoPlacement
    /\ NoStepstone
    /\ NoMetrics
    /\ NoFaults
    /\ NoBoundary
    /\ NoCache
    /\ NoFanout
    /\ client \in { New(codes) : codes \in SUBSET ExtraStatuses }
    /\ req \in { [Body |-> b, GetBody |-> <<>>, ctx |-> "live",
                   content |-> IF b = <<>> THEN <<>> ELSE b[1].data] :
                    b \in RequestBodies }
    /\ do = [pc |-> "buffer", retries |-> 0, wake |-> "none",
             resp |-> NoResponse, err |-> nil, code |-> 0]
    /\ server = [calls |-> 0, bodies |-> <<>>, last |-> NoResponse]

\* return resp, err
DoReturns(resp, err, code) ==
    [do EXCEPT !.pc = "done", !.resp = resp, !.err = err, !.code = code]

\* Buffer the body for retries: io.ReadAll(req.Body) answers ok or fails;
\* req.GetBody hands out readers over the bytes, the first to req.Body.
DoBuffer(ok) ==
    /\ do.pc = "buffer"
    /\ IF req.Body = <<>>
       THEN /\ ok
            /\ do' = [do EXCEPT !.pc = "attempt"]
            /\ UNCHANGED req
       ELSE IF ok
            THEN /\ req' = [req EXCEPT
                              !.GetBody = <<ReadAll(req.Body[1])>>,
                              !.Body = <<NewReader(ReadAll(req.Body[1]))>>]
                 /\ do' = [do EXCEPT !.pc = "attempt"]
            ELSE /\ req' = [req EXCEPT !.Body = <<AtEOF(req.Body[1])>>]
                 /\ do' = DoReturns(NoResponse,
                              Wrap("failed to read request body for retries in retryhttp.Do",
                                   ErrRead), 0)
    /\ UNCHANGED <<client, server>>
    /\ UNCHANGED <<orchestrator, teardown, placement, fanout, cache, boundary, store, metrics, stepstone>>

\* a test that is passed one retry later
ExhaustedLate(retries) == retries > maxRetries

\* if retries >= maxRetries
Exhausted(retries) == retries >= maxRetries

\* a Do that answers every status but 200 with an error
RespondOK(code) ==
    IF code = 200 THEN DoReturns(code, nil, 0)
    ELSE DoReturns(NoResponse, <<"retryhttp.Do received status code">>, code)

\* return resp, nil
Respond(code) == DoReturns(code, nil, 0)

\* resp, err := c.client.Do(req): the RoundTripper reads the body and answers
\* out, a status or no response; then Do returns or goes to wait.
RoundTrip(out) ==
    /\ do.pc = "attempt"
    /\ server' = [calls |-> server.calls + 1,
                  bodies |-> Append(server.bodies,
                                    IF req.Body = <<>> THEN <<>>
                                    ELSE ReadAll(req.Body[1])),
                  last |-> out]
    /\ req' = IF req.Body = <<>> THEN req
              ELSE [req EXCEPT !.Body = <<AtEOF(req.Body[1])>>]
    /\ do' = IF out = NoResponse
             THEN DoReturns(NoResponse,
                     Wrap("failed to perform http request in retryhttp.Do",
                          ErrRoundTrip), 0)
             ELSE IF out \in client.isRetryable
                  THEN IF Exhausted(do.retries)
                       THEN DoReturns(out,
                               Wrap("with status code", ErrRetryable), out)
                       ELSE [do EXCEPT
                               !.pc = "wait", !.retries = @ + 1,
                               !.wake = IF req.ctx = "cancelled"
                                        THEN "done" ELSE "none"]
                  ELSE Respond(out)
    /\ UNCHANGED client
    /\ UNCHANGED <<orchestrator, teardown, placement, fanout, cache, boundary, store, metrics, stepstone>>

\* The timer of the wait fires: t.C is ready, and wakes a select that nothing
\* has woken.
TimerFires ==
    /\ do.pc = "wait" /\ do.wake = "none"
    /\ do' = [do EXCEPT !.wake = "timer"]
    /\ UNCHANGED <<client, req, server>>
    /\ UNCHANGED <<orchestrator, teardown, placement, fanout, cache, boundary, store, metrics, stepstone>>

\* The request's context is cancelled: Done() is ready.
Cancel ==
    /\ req.ctx = "live"
    /\ do.pc # "done"
    /\ req' = [req EXCEPT !.ctx = "cancelled"]
    /\ do' = IF do.pc = "wait" /\ do.wake = "none"
             THEN [do EXCEPT !.wake = "done"] ELSE do
    /\ UNCHANGED <<client, server>>
    /\ UNCHANGED <<orchestrator, teardown, placement, fanout, cache, boundary, store, metrics, stepstone>>

\* a request that keeps the body of the attempt before
KeepBody(r) == r

\* if req.Body != nil { req.Body, err = req.GetBody() }
ResetBody(r) ==
    IF r.Body # <<>> THEN [r EXCEPT !.Body = <<NewReader(r.GetBody[1])>>]
    ELSE r

\* a wait that is a time.Sleep
Sleep(wake) == "timer"

\* select { case <-t.C: ... case <-req.Context().Done(): ... }
Select(wake) == wake

\* The select goes on with the case that woke it.
DoSelect ==
    /\ do.pc = "wait" /\ do.wake # "none"
    /\ IF Select(do.wake) = "timer"
       THEN /\ req' = ResetBody(req)
            /\ do' = [do EXCEPT !.pc = "attempt", !.wake = "none"]
       ELSE /\ do' = DoReturns(NoResponse,
                        Wrap("retryhttp.Do ctx cancelled", ErrCanceled), 0)
            /\ UNCHANGED req
    /\ UNCHANGED <<client, server>>
    /\ UNCHANGED <<orchestrator, teardown, placement, fanout, cache, boundary, store, metrics, stepstone>>

NextTransport ==
    \/ \E ok \in BOOLEAN : DoBuffer(ok)
    \/ \E out \in Statuses \cup { NoResponse } : RoundTrip(out)
    \/ TimerFires
    \/ Cancel
    \/ DoSelect

SpecTransport == InitTransport /\ [][NextTransport]_vars

----------------------------------------------------------------------------
(* The fan-out of package scrape: scraper.Scrape starts one goroutine for  *)
(* every source, two goroutines that collect what the sources send on      *)
(* offersCh and errorsCh, waits for the sources and returns totalOffers    *)
(* and the combined errs.  The channels are unbuffered: a send is one step *)
(* with the receive of the collecting goroutine; the append under the      *)
(* mutex is the collector's next step.                                     *)

\* an error of a source that is not the retry client's
ErrParse == <<"parse failed">>

SourceErrors == { nil, Wrap("unable to fetch", ErrRetryable), ErrParse }

\* What the Scrape of source i can return: offers, an error, or both.
SourceResults(i) ==
    { [offers |-> o, err |-> e] :
        o \in { <<>>, << [Title |-> i] >> }, e \in SourceErrors }

\* fmt.Errorf("%w; %w", a, b): the error wraps both; a combined error is
\* the list of the errors it wraps, in the order errors.Is visits them.
Errorf2(a, b) == a \o b

RECURSIVE combineFrom(_, _, _)
combineFrom(combinedErr, es, i) ==
    IF i > Len(es) THEN combinedErr
    ELSE combineFrom(Errorf2(combinedErr, << es[i] >>), es, i + 1)

\* combineErrors: nil for no error, else errs[0] wrapped with the others.
combineErrors(es) ==
    IF Len(es) = 0 THEN nil ELSE combineFrom(<< es[1] >>, es, 2)

\* errors.Is on what combineErrors returns
CombinedIs(err, target) ==
    \E i \in 1 .. Len(err) : ErrorsIs(err[i], target)

InitFanout ==
    /\ InitOrchestrator /\ scrList = Scrapers
    /\ NoPlacement
    /\ NoStepstone
    /\ NoMetrics
    /\ NoFaults
    /\ NoBoundary
    /\ NoCache
    /\ NoTransport
    /\ \E n \in 1 .. MaxSources :
         /\ sources \in { f \in [1 .. n -> UNION { SourceResults(i) :
                                                    i \in 1 .. n }] :
                            \A i \in 1 .. n : f[i] \in SourceResults(i) }
         /\ fan = [i \in 1 .. n |-> "scrape"]
    /\ recvd = [offers |-> <<>>, errs |-> <<>>]
    /\ totalOffers = <<>>
    /\ errs = <<>>
    /\ ret = [pc |-> "wait"]

\* offers, err := source.Scrape(ctx, query)
SourceScrape(i) ==
    /\ fan[i] = "scrape"
    /\ fan' = [fan EXCEPT ![i] = IF sources[i].err # nil THEN "sendErr"
                                 ELSE "sendOffers"]
    /\ UNCHANGED <<sources, recvd, totalOffers, errs, ret>>
    /\ UNCHANGED <<orchestrator, teardown, placement, transport, cache, boundary, store, metrics, stepstone>>

\* a Scrape that starts no goroutine ranging over errorsCh
NoErrCollector(r) == FALSE

\* go func() { for e := range errorsCh {...} }(): the collector is at its
\* receive when it holds nothing it has yet to append.
ErrCollectorReceives(r) == r = <<>>

\* errorsCh <- err, received by `for e := range errorsCh`
SendErr(i) ==
    /\ fan[i] = "sendErr"
    /\ ErrCollectorReceives(recvd.errs)
    /\ recvd' = [recvd EXCEPT !.errs = << sources[i].err >>]
    /\ fan' = [fan EXCEPT ![i] = "sendOffers"]
    /\ UNCHANGED <<sources, totalOffers, errs, ret>>
    /\ UNCHANGED <<orchestrator, teardown, placement, transport, cache, boundary, store, metrics, stepstone>>

\* offersCh <- offers, received by `for o := range offersCh`; the goroutine
\* of the source ends (wg.Done).
SendOffers(i) ==
    /\ fan[i] = "sendOffers"
    /\ recvd.offers = <<>>
    /\ recvd' = [recvd EXCEPT !.offers = << sources[i].offers >>]
    /\ fan' = [fan EXCEPT ![i] = "done"]
    /\ UNCHANGED <<sources, totalOffers, errs, ret>>
    /\ UNCHANGED <<orchestrator, teardown, placement, transport, cache, boundary, store, metrics, stepstone>>

\* The collector has received and has not appended yet.
Received(r) == r # <<>>

\* mu.Lock(); totalOffers = append(totalOffers, o...); mu.Unlock()
AppendOffers ==
    /\ Received(recvd.offers)
    /\ totalOffers' = totalOffers \o recvd.offers[1]
    /\ recvd' = [recvd EXCEPT !.offers = <<>>]
    /\ UNCHANGED <<sources, fan, errs, ret>>
    /\ UNCHANGED <<orchestrator, teardown, placement, transport, cache, boundary, store, metrics, stepstone>>

\* mu.Lock(); errs = append(errs, e); mu.Unlock()
AppendErr ==
    /\ Received(recvd.errs)
    /\ errs' = Append(errs, recvd.errs[1])
    /\ recvd' = [recvd EXCEPT !.errs = <<>>]
    /\ UNCHANGED <<sources, fan, totalOffers, ret>>
    /\ UNCHANGED <<orchestrator, teardown, placement, transport, cache, boundary, store, metrics, stepstone>>

\* wg.Wait() has returned: close(offersCh), close(errorsCh) and
\* return totalOffers, combineErrors(errs).  The two slices are read
\* without the mutex, whatever the collectors have appended by now.
ScrapeReturns ==
    /\ ret.pc = "wait"
    /\ \A i \in DOMAIN fan : fan[i] = "done"
    /\ ret' = [pc |-> "returned", offers |-> totalOffers,
               err |-> combineErrors(errs)]
    /\ UNCHANGED <<sources, fan, recvd, totalOffers, errs>>
    /\ UNCHANGED <<orchestrator, teardown, placement, transport, cache, boundary, store, metrics, stepstone>>

NextFanout ==
    \/ \E i \in DOMAIN fan : SourceScrape(i)
    \/ \E i \in DOMAIN fan : SendErr(i)
    \/ \E i \in DOMAIN fan : SendOffers(i)
    \/ AppendOffers
    \/ AppendErr
    \/ ScrapeReturns

SpecFanout == InitFanout /\ [][NextFanout]_vars

\* Every goroutine that can take a step takes it: the sources return from
\* their Scrape, and the Go scheduler runs the senders, the collectors and
\* the caller.
SpecFanoutFair ==
    /\ SpecFanout
    /\ \A i \in 1 .. MaxSources : WF_vars(i \in DOMAIN fan /\ SourceScrape(i))
    /\ \A i \in 1 .. MaxSources : WF_vars(i \in DOMAIN fan /\ SendErr(i))
    /\ \A i \in 1 .. MaxSources : WF_vars(i \in DOMAIN fan /\ SendOffers(i))
    /\ WF_vars(AppendOffers) /\ WF_vars(AppendErr) /\ WF_vars(ScrapeReturns)

----------------------------------------------------------------------------
(* The location lookup of the Glassdoor adapter.  Runs of the adapter for  *)
(* different queries are different jobs of the scheduler and overlap, so   *)
(* fetchLocation is called from several goroutines; a call is taken in     *)
(* its steps: the Load, the request, and the LoadOrStore of the answer.    *)

Locations == { "berlin", "paris" }
Lookers == 1 .. 2

\* what glassdoor answers for a term: the first match of its list
LocationIDs == { 1, 2 }

NoLocation == 0

\* g.lCache.Load(loc)
Load(m, loc) == IF loc \in DOMAIN m THEN m[loc] ELSE NoLocation

\* g.lCache.LoadOrStore(loc, result): the map afterwards
LoadOrStore(m, loc, result) ==
    IF loc \in DOMAIN m THEN m
    ELSE [l \in DOMAIN m \cup { loc } |-> IF l = loc THEN result ELSE m[l]]

ErrLocation == <<"unable to fetch location">>

InitCache ==
    /\ InitOrchestrator /\ scrList = Scrapers
    /\ NoPlacement
    /\ NoStepstone
    /\ NoMetrics
    /\ NoFaults
    /\ NoBoundary
    /\ NoTransport
    /\ NoFanout
    /\ NoBoundary
    /\ lCache = <<>>
    /\ lookup = [g \in Lookers |-> [pc |-> "idle", n |-> 0]]
    /\ upstream = [l \in Locations |-> [calls |-> 0, failed |-> 0]]

\* fetchLocation(ctx, loc) is called: a cached location is returned, for an
\* unknown one the request is built.
FetchLocation(g, loc) ==
    /\ lookup[g].pc \in { "idle", "returned" }
    /\ lookup[g].n < MaxLookups
    /\ lookup' = [lookup EXCEPT ![g] =
          IF Load(lCache, loc) # NoLocation
          THEN [pc |-> "returned", n |-> lookup[g].n + 1, loc |-> loc,
                cached |-> TRUE, called |-> FALSE,
                res |-> Load(lCache, loc), err |-> nil]
          ELSE [pc |-> "request", n |-> lookup[g].n + 1, loc |-> loc,
                cached |-> FALSE, called |-> FALSE,
                res |-> NoLocation, err |-> nil]]
    /\ UNCHANGED <<lCache, upstream>>
    /\ UNCHANGED <<orchestrator, teardown, placement, transport, fanout, boundary, store, metrics, stepstone>>

\* g.client.Do(req) and what follows it.  Glassdoor receives the request;
\* a failed request, a status other than 200 or an undecodable body return
\* an error; an empty list of matches makes l[0] panic; else the first
\* match is stored unless the term has been stored meanwhile, and what the
\* cache holds is returned.
FetchLocationDo(g) ==
    /\ lookup[g].pc = "request"
    /\ \/ /\ lookup' = [lookup EXCEPT ![g].pc = "returned",
                                       ![g].called = TRUE,
                                       ![g].err = ErrLocation]
          /\ upstream' = [upstream EXCEPT ![lookup[g].loc].calls = @ + 1,
                                          ![lookup[g].loc].failed = @ + 1]
          /\ UNCHANGED lCache
       \/ /\ lookup' = [lookup EXCEPT ![g].pc = "panicked",
                                       ![g].called = TRUE]
          /\ upstream' = [upstream EXCEPT ![lookup[g].loc].calls = @ + 1,
                                          ![lookup[g].loc].failed = @ + 1]
          /\ UNCHANGED lCache
       \/ \E id \in LocationIDs :
            /\ lCache' = LoadOrStore(lCache, lookup[g].loc, id)
            /\ lookup' = [lookup EXCEPT ![g].pc = "returned",
                                        ![g].called = TRUE,
                                        ![g].res = lCache'[lookup[g].loc]]
            /\ upstream' = [upstream EXCEPT ![lookup[g].loc].calls = @ + 1]
    /\ UNCHANGED <<orchestrator, teardown, placement, transport, fanout, boundary, store, metrics, stepstone>>

NextCache ==
    \/ \E g \in Lookers : \E loc \in Locations : FetchLocation(g, loc)
    \/ \E g \in Lookers : FetchLocationDo(g)

SpecCache == InitCache /\ [][NextCache]_vars

----------------------------------------------------------------------------
(* The HTTP boundary.  A form value is a string over a small alphabet      *)
(* that has a member of every class the validation tells apart.  The       *)
(* templates are embedded and parsed by New; their execution is taken to   *)
(* succeed.                                                                *)

LowerChars == { "a", "b" }
UpperChars == { "A", "B" }
DigitCharsForm == { "0" }

\* the characters of a form value: a lower-case and an upper-case letter,
\* a digit, the space, and one character the pattern does not admit
FormChars == { "a", "B", "0", " ", "-" }

\* r.FormValue(p): the empty string for a parameter that is missing
FormValues == UNION { [1 .. n -> FormChars] : n \in 0 .. MaxParamLen }

\* regexp.MustCompile(`^[A-Za-z0-9 ]+$`).MatchString(v)
MatchString(v) ==
    /\ Len(v) >= 1
    /\ \A i \in DOMAIN v :
          v[i] \in LowerChars \cup UpperChars \cup DigitCharsForm \cup { " " }

RECURSIVE TrimLeft(_)
TrimLeft(v) ==
    IF v # <<>> /\ Head(v) = " " THEN TrimLeft(Tail(v)) ELSE v

RECURSIVE TrimRight(_)
TrimRight(v) ==
    IF v # <<>> /\ v[Len(v)] = " "
    THEN TrimRight(SubSeq(v, 1, Len(v) - 1)) ELSE v

\* strings.TrimSpace
TrimSpace(v) == TrimRight(TrimLeft(v))

\* strings.ToLower
ToLower(v) ==
    [i \in DOMAIN v |-> CASE v[i] = "A" -> "a" [] v[i] = "B" -> "b"
                           [] OTHER -> v[i]]

\* validateParams: the switch over one form value
Classify(v) ==
    IF v = <<>> THEN "missing"
    ELSE IF ~ MatchString(v) THEN "invalid"
    ELSE "valid"

ParamNames == << "keywords", "location" >>

\* validateParams: the parameters of the list that fell into a class
Classed(form, class) ==
    SelectSeq(ParamNames, LAMBDA p : Classify(form[p]) = class)

\* validateParams: 400 and the lists of what is missing and invalid, or
\* the normalised values
validateParams(form) ==
    IF Classed(form, "missing") # <<>> \/ Classed(form, "invalid") # <<>>
    THEN [status |-> 400, missing |-> Classed(form, "missing"),
          invalid |-> Classed(form, "invalid")]
    ELSE [status |-> 0,
          valid |-> [p \in { "keywords", "location" } |->
                        ToLower(TrimSpace(form[p]))]]

\* what CreateQuery returns to the boundary
CreateErrors == { nil, ErrTimedOut, Wrap("failed to create query", ErrConn) }

\* what ListOffers returns to the boundary
ListErrors == { nil, Wrap("failed to get query", ErrNoRows),
                Wrap("failed to list offers", ErrConn) }

\* the create handler of src/server/server.go: every error is internal
AnyErrorInternal(err) == IF err # nil THEN 500 ELSE 200

\* server.create: a timed-out creation is answered like a finished one,
\* every other error is an internal error.
CreateStatus(err) ==
    IF err # nil /\ ~ ErrorsIs(err, ErrTimedOut) THEN 500 ELSE 200

\* server.feed: an unknown query renders the feed with NotFound.
FeedStatus(err) ==
    IF err # nil /\ ~ ErrorsIs(err, ErrNoRows) THEN 500 ELSE 200

InitBoundary ==
    /\ InitOrchestrator /\ scrList = Scrapers
    /\ NoPlacement
    /\ NoStepstone
    /\ NoMetrics
    /\ NoFaults
    /\ NoTransport
    /\ NoFanout
    /\ NoCache
    /\ httpReq = [route |-> "none"]
    /\ handling = [pc |-> "idle"]
    /\ passed = <<>>
    /\ httpResp = [status |-> 0]

\* mux: POST /feeds is s.create(), GET /feeds is s.feed()
Serve(route, kw, loc) ==
    /\ handling.pc = "idle"
    /\ httpReq' = [route |-> route,
                   form |-> [keywords |-> kw, location |-> loc]]
    /\ handling' = [pc |-> "validate"]
    /\ passed' = <<>>
    /\ httpResp' = [status |-> 0]
    /\ UNCHANGED <<orchestrator, teardown, placement, transport, fanout,
                   cache, store, metrics, stepstone>>

\* params, err := validateParams(...); if err != nil { return }
Validate ==
    /\ handling.pc = "validate"
    /\ IF validateParams(httpReq.form).status = 400
       THEN /\ httpResp' = [status |-> 400, page |-> "errors",
                            missing |-> validateParams(httpReq.form).missing,
                            invalid |-> validateParams(httpReq.form).invalid]
            /\ handling' = [pc |-> "done", err |-> nil]
       ELSE /\ httpResp' = httpResp
            /\ handling' = [pc |-> "call",
                            params |-> validateParams(httpReq.form).valid]
    /\ UNCHANGED <<httpReq, passed>>
    /\ UNCHANGED <<orchestrator, teardown, placement, transport, fanout,
                   cache, store, metrics, stepstone>>

\* server.create after the validation: s.jobber.CreateQuery and the page
Create ==
    /\ handling.pc = "call" /\ httpReq.route = "POST /feeds"
    /\ passed' = Append(passed, [op |-> "CreateQuery",
                                 keywords |-> handling.params.keywords,
                                 location |-> handling.params.location])
    /\ \E err \in CreateErrors :
         /\ handling' = [pc |-> "done", err |-> err]
         /\ httpResp' = [status |-> CreateStatus(err),
                         page |-> IF CreateStatus(err) = 200
                                  THEN "create_response.gohtml"
                                  ELSE "it's not you it's me"]
    /\ UNCHANGED httpReq
    /\ UNCHANGED <<orchestrator, teardown, placement, transport, fanout,
                   cache, store, metrics, stepstone>>

\* server.feed after the validation: s.jobber.ListOffers and the feed
Feed ==
    /\ handling.pc = "call" /\ httpReq.route = "GET /feeds"
    /\ passed' = Append(passed, [op |-> "ListOffers",
                                 keywords |-> handling.params.keywords,
                                 location |-> handling.params.location])
    /\ \E err \in ListErrors :
         /\ handling' = [pc |-> "done", err |-> err]
         /\ httpResp' = [status |-> FeedStatus(err),
                         page |-> IF FeedStatus(err) = 200 THEN "rss.goxml"
                                  ELSE "it's not you it's me"]
    /\ UNCHANGED httpReq
    /\ UNCHANGED <<orchestrator, teardown, placement, transport, fanout,
                   cache, store, metrics, stepstone>>

NextBoundary ==
    \/ \E route \in { "POST /feeds", "GET /feeds" } :
         \E kw, loc \in FormValues : Serve(route, kw, loc)
    \/ Validate
    \/ Create
    \/ Feed

SpecBoundary == InitBoundary /\ [][NextBoundary]_vars

----------------------------------------------------------------------------
(* The gauge scheduled_queries.  scheduleQuery increments it for each job  *)
(* it registers, runQuery decrements it when it removes the jobs of an     *)
(* unused query.  A label set is the tuple of the values given to          *)
(* WithLabelValues: query_id, tag, cron.  A run through the expiration is  *)
(* taken in one step here.                                                 *)

\* The minutes of the hour a query may have been created at.
CreatedMinutes == { 0, 59 }

\* Gauge.Add(d) on each of the label sets of lbls; a label set starts at 0.
GaugeAdd(g, lbls, d) ==
    [lbl \in DOMAIN g \cup lbls |->
        (IF lbl \in DOMAIN g THEN g[lbl] ELSE 0)
        + (IF lbl \in lbls THEN d ELSE 0)]

\* WithLabelValues(fmt.Sprintf("%d", q.ID), q.Keywords+q.Location+name, cron)
ScheduledLabels(q, name, cron) ==
    <<Itoa(q.id), (q.keywords \o q.location) \o name, cron>>

\* WithLabelValues(fmt.Sprintf("%d", q.ID), q.Keywords+q.Location, "")
RemovedLabels(q) == <<Itoa(q.id), q.keywords \o q.location, "">>

InitMetrics ==
    /\ InitOrchestrator
    /\ NoPlacement
    /\ NoStepstone
    /\ NoTransport
    /\ NoFanout
    /\ NoCache
    /\ NoBoundary
    /\ NoFaults
    /\ gauge = <<>>

\* scheduleQuery for a new row created at minute m: NewJob and Inc() for
\* every scraper.
ScheduleQueryInc(k, l, m) ==
    /\ Live
    /\ ~ UniqueViolation(queries, k, l)
    /\ nextId <= MaxQueries
    /\ queries' = SqlCreateQuery(queries, nextId, k, l, now)
    /\ nextId' = nextId + 1
    /\ jobs' = scheduleQuery(jobs, scrList,
                             SqlCreateQueryRow(nextId, k, l, now), 0, FALSE)
    /\ gauge' = GaugeAdd(gauge,
                   { ScheduledLabels(SqlCreateQueryRow(nextId, k, l, now),
                                     name, CronExpr([created_at |-> m])) :
                       name \in scrList }, 1)
    /\ UNCHANGED <<now, offers, query_offers, status, runs, started, calls,
                   listing, scrList, panicked>>
    /\ UNCHANGED <<teardown, placement, transport, fanout, cache, boundary, store, stepstone>>

\* A run of job jb finds its query unused for more than seven days:
\* DeleteQuery, RemoveByTags, Dec().
RunExpireDec(jb) ==
    /\ Live
    /\ jb \in jobs
    /\ \E q \in queries :
         /\ q.id = jb.qid
         /\ Expired(q, now)
         /\ queries' = SqlDeleteQuery(queries, q.id)
         /\ query_offers' = CascadeQuery(query_offers, q.id)
         /\ status' = CascadeQuery(status, q.id)
         /\ jobs' = RemoveByTags(jobs, q.keywords \o q.location)
         /\ gauge' = GaugeAdd(gauge, { RemovedLabels(q) }, 0 - 1)
    /\ UNCHANGED <<now, nextId, offers, runs, started, calls, listing,
                   scrList, panicked>>
    /\ UNCHANGED <<teardown, placement, transport, fanout, cache, boundary, store, stepstone>>

NextMetrics ==
    \/ Tick
    \/ \E key \in Keys : \E m \in CreatedMinutes :
          ScheduleQueryInc(key[1], key[2], m)
    \/ \E jb \in jobs : RunExpireDec(jb)

SpecMetrics == InitMetrics /\ [][NextMetrics]_vars

----------------------------------------------------------------------------
(* The pagination loop of the Stepstone adapter.  An iteration (the fetch  *)
(* of page i and what the loop does with the response) is one step; the    *)
(* response of the upstream is an input: a number of items, a pageCount    *)
(* and a totalCount, or an error.  The offers are counted.  The counter i  *)
(* is an int, modelled with IntBits bits.                                  *)

ErrFetch == <<"failed to do http request in stepstone.fetchOffers">>
ErrPage == <<"page must be greater than 0 in stepstone.fetchOffers">>

\* i++ on an int of IntBits bits
IntInc(i) ==
    ((i + 1 + 2 ^ (IntBits - 1)) % (2 ^ IntBits)) - 2 ^ (IntBits - 1)

\* What fetchOffers decodes from the upstream.
Responses ==
    [items : 0 .. MaxItems, pageCount : 0 .. MaxPageCount,
     totalCount : 0 .. MaxItems]

InitStepstone ==
    /\ InitOrchestrator
    /\ NoPlacement
    /\ NoTransport
    /\ NoFanout
    /\ NoCache
    /\ NoBoundary
    /\ NoFaults
    /\ NoMetrics
    /\ pager = [pc |-> "loop", i |-> 1, offers |-> 0, totalCount |-> 0,
                pageCount |-> 0, err |-> nil]

\* err != nil: err = fmt.Errorf("failed to fetchOffers ...: %w", err); break
FetchFails(err) ==
    pager' = [pager EXCEPT !.pc = "after",
                !.err = Wrap("failed to fetchOffers in stepstone.Scrape", err)]

\* One iteration of for i := 1; ; i++.
Iterate ==
    /\ pager.pc = "loop"
    /\ IF pager.i < 1
       THEN FetchFails(ErrPage)
       ELSE \/ FetchFails(ErrFetch)
            \/ \E r \in Responses :
                 pager' = [pager EXCEPT
                    !.totalCount = IF @ = 0 THEN r.totalCount ELSE @,
                    !.offers = @ + r.items,
                    !.pageCount = r.pageCount,
                    !.pc = IF r.pageCount = pager.i THEN "after" ELSE "loop",
                    !.i = IF r.pageCount = pager.i THEN @ ELSE IntInc(@)]
    /\ UNCHANGED <<orchestrator, teardown, placement, transport, fanout, cache, boundary, store, metrics>>

\* return totalOffers, err, or totalOffers[:totalCount], err
StepstoneReturns ==
    /\ pager.pc = "after"
    /\ pager' = [pager EXCEPT !.pc = "returned",
                   !.offers = IF pager.totalCount > @ THEN @
                              ELSE pager.totalCount]
    /\ UNCHANGED <<orchestrator, teardown, placement, transport, fanout, cache, boundary, store, metrics>>

NextStepstone ==
    \/ Iterate
    \/ StepstoneReturns

SpecStepstone == InitStepstone /\ [][NextStepstone]_vars

----------------------------------------------------------------------------
(* Properties of the orchestrator *)

\* C1: however often and however interleaved CreateQuery(k, l) is called, the
\* table holds one row for (k, l): a call that is in progress or has just
\* returned finds exactly one; and a call that hit the existing key returns
\* nil and has registered no job.
C1_IdempotentCreate ==
    /\ \A p, q \in queries :
          p.keywords = q.keywords /\ p.location = q.location => p = q
    /\ \A c \in Callers :
          calls[c].status \in { "waiting", "returned" } =>
             /\ Cardinality({ q \in queries :
                                q.keywords = calls[c].keywords
                                /\ q.location = calls[c].location }) = 1
             /\ calls[c].qid = 0 =>
                   /\ calls[c].err = <<>>
                   /\ \A jb \in jobs : jb.call # c

\* A second call for a key returns while the first call for it still waits
\* for the initial scrapes.
C1_Witness ==
    \E c, d \in Callers :
       /\ calls[c].status = "waiting"
       /\ calls[d].status = "returned" /\ calls[d].qid = 0
       /\ calls[d].keywords = calls[c].keywords
       /\ calls[d].location = calls[c].location
       /\ Cardinality(jobs) = Cardinality(scrList)

\* C2: a run that finds its query's queried_at more than seven days back
\* deletes the row and never scrapes (it is at the delete); after the delete
\* the row, its associations and its status rows are gone; the jobs of a
\* deleted query are gone once the deleting run has removed them; and
\* ListOffers answers not-found exactly when the table has no row for the key.
C2_Expiration ==
    /\ \A w \in Workers :
          runs[w].pc # "free" =>
             /\ (\E q \in queries : q.id = runs[w].qid
                                    /\ now - q.queried_at > SevenDays)
                   => runs[w].pc = "delete"
             /\ runs[w].pc = "remove" =>
                   /\ ~ \E q \in queries : q.id = runs[w].qid
                   /\ ~ \E r \in BagToSet(query_offers) : r.query_id = runs[w].qid
                   /\ ~ \E r \in BagToSet(status) : r.query_id = runs[w].qid
    /\ \A jb \in jobs :
          (~ \E q \in queries : q.id = jb.qid) =>
             \E w \in Workers : runs[w].pc = "remove" /\ runs[w].qid = jb.qid
    /\ listing.pc = "returned" =>
          ((\E i \in 1 .. Len(listing.res.err) :
               listing.res.err[i] = "sql: no rows in result set")
           <=> ~ \E q \in queries : q.keywords = listing.keywords
                                     /\ q.location = listing.location)

\* With two sources: the query that was created has been deleted, no job is
\* left, and ListOffers for its key answers not-found.
C2_Witness ==
    /\ scrList = Scrapers
    /\ nextId > 1 /\ queries = {} /\ jobs = {}
    /\ \A w \in Workers : runs[w].pc = "free"
    /\ listing.pc = "returned" /\ listing.res.err # <<>>

C4_OkAfterInitialRuns ==
    \A c \in Callers :
       (calls[c].status = "returned" /\ calls[c].err = <<>>
        /\ calls[c].qid # 0) =>
          /\ calls[c].wg = 0
          /\ \A jb \in jobs : jb.call = c => ~ jb.initial
          /\ \A w \in Workers : runs[w].pc # "free" => runs[w].call # c

\* With two sources, a call returns nil for the query it created.
C4_Witness ==
    /\ scrList = Scrapers
    /\ \E c \in Callers :
          /\ calls[c].status = "returned" /\ calls[c].err = <<>>
          /\ calls[c].qid # 0
          /\ Cardinality({ s \in BagToSet(status) :
                             s.query_id = calls[c].qid }) = 2

\* C5: a start-immediately run whose caller has left CreateQuery before the
\* listener fired (the call timed out) is not cancelled: its next step can be
\* taken, and when it has gone through its batch every offer of the batch
\* that is within the seven-day window is among the rows ListOffers selects
\* for the query.
C5_TimeOutKeepsScraping ==
    \A w \in Workers :
       (/\ runs[w].pc # "free" /\ runs[w].initial /\ runs[w].call # 0
        /\ calls[runs[w].call].status = "left") =>
          /\ (~ panicked /\ ~ Handing) =>
                ENABLED (\/ RunScrape(w) \/ RunCreateOffer(w)
                         \/ RunCreateQueryOfferAssoc(w)
                         \/ RunUpdateQueryScrapedAt(w))
          /\ runs[w].pc = "stamp" =>
                \A i \in 1 .. Len(runs[w].offers) :
                   now - runs[w].offers[i].posted_at <= SevenDays =>
                      \E o \in BagToSet(offers) :
                         /\ o.id = runs[w].offers[i].id
                         /\ \E q \in queries : q.id = runs[w].qid
                         /\ \E r \in BagToSet(query_offers) :
                               r.query_id = runs[w].qid /\ r.offer_id = o.id

\* The caller has left with the counter at two, one start-immediately run
\* has gone through a batch of two offers, and the other one is scraping.
C5_Witness ==
    \E v, w \in Workers :
       /\ runs[w].pc = "stamp" /\ runs[w].initial /\ runs[w].call # 0
       /\ calls[runs[w].call].status = "left" /\ calls[runs[w].call].wg = 2
       /\ Len(runs[w].offers) = 2
       /\ runs[v].pc = "scrape" /\ runs[v].initial /\ runs[v].call = runs[w].call

\* C6: a run whose adapter returned offers together with an error ingests
\* them all: it is inserting (never back at the scrape or at the delete), it
\* reaches the scraped_at update only after the last offer of the batch, and
\* every offer it has dealt with that is within the seven-day window has its
\* row, and with the query's row still there its association.
C6_PartialSuccess ==
    \A w \in Workers :
       (runs[w].pc # "free" /\ runs[w].err # <<>>) =>
          /\ Len(runs[w].offers) > 0
          /\ runs[w].pc \in { "assoc", "offer", "stamp" }
          /\ runs[w].pc = "stamp" => runs[w].i = Len(runs[w].offers)
          /\ \A i \in 1 .. Len(runs[w].offers) :
                (/\ now - runs[w].offers[i].posted_at <= SevenDays
                 /\ \/ i < runs[w].i
                    \/ i = runs[w].i /\ runs[w].pc \in { "assoc", "stamp" }) =>
                   /\ \E o \in BagToSet(offers) : o.id = runs[w].offers[i].id
                   /\ (/\ \E q \in queries : q.id = runs[w].qid
                       /\ i < runs[w].i \/ runs[w].pc = "stamp") =>
                         \E r \in BagToSet(query_offers) :
                            /\ r.query_id = runs[w].qid
                            /\ r.offer_id = runs[w].offers[i].id

\* A run whose adapter returned two offers and an error is at the scraped_at
\* update, both offers stored and associated.
C6_Witness ==
    \E w \in Workers :
       /\ runs[w].pc = "stamp" /\ runs[w].err # <<>>
       /\ Len(runs[w].offers) = 2
       /\ \A i \in 1 .. 2 :
             \E r \in BagToSet(query_offers) :
                r.query_id = runs[w].qid /\ r.offer_id = runs[w].offers[i].id

\* C7: the offers table never holds two rows with one id, and the
\* query_offers table never two rows with one (query_id, offer_id), whatever
\* runs have inserted and however they overlapped.
C7_IdempotentWrites ==
    /\ \A x \in BagToSet(offers) :
          /\ CopiesIn(x, offers) = 1
          /\ \A y \in BagToSet(offers) : x.id = y.id => x = y
    /\ \A x \in BagToSet(query_offers) : CopiesIn(x, query_offers) = 1

\* Two runs, of two queries, are in flight with the same offer in their
\* batches, and the offer is stored once and associated with both queries.
C7_Witness ==
    /\ \A w \in Workers :
          /\ runs[w].pc \in { "offer", "stamp" }
          /\ runs[w].offers[1].id = "X"
    /\ runs[1].qid # runs[2].qid
    /\ Cardinality({ o \in BagToSet(offers) : o.id = "X" }) = 1
    /\ Cardinality({ r \in BagToSet(query_offers) : r.offer_id = "X" }) = 2

\* C8: every offer ListOffers returns was posted within the last seven days.
C8_WindowEnforced ==
    listing.pc = "returned" =>
       \A o \in listing.res.offers : now - o.posted_at <= SevenDays

\* C9: ListOffers for a key the table has no row for returns an error that
\* wraps sql.ErrNoRows, no offers and no timestamp, and leaves every table
\* and the scheduler as they were.
C9_NotFound ==
    [][(/\ listing.pc = "idle" /\ listing'.pc = "returned"
        /\ ~ \E q \in queries : q.keywords = listing'.keywords
                                /\ q.location = listing'.location) =>
          /\ \E i \in 1 .. Len(listing'.res.err) :
                SubSeq(listing'.res.err, i, Len(listing'.res.err))
                   = <<"sql: no rows in result set">>
          /\ listing'.res.offers = {}
          /\ listing'.res.ts = <<>>
          /\ queries' = queries /\ offers' = offers
          /\ query_offers' = query_offers /\ status' = status
          /\ jobs' = jobs]_vars

\* ListOffers has answered not-found for one key while the query of the
\* other key is stored, with offers.
C9_Witness ==
    /\ listing.pc = "returned" /\ listing.res.err # <<>>
    /\ listing.res.offers = {} /\ listing.res.ts = <<>>
    /\ queries # {} /\ query_offers # EmptyBag

\* C10: when ListOffers returns offers of a query (a run has ingested at
\* least one for it), it returns them with a timestamp that is not null.
C10_FreshnessSet ==
    (listing.pc = "returned" /\ listing.res.offers # {}) =>
       /\ listing.res.ts # <<>>
       /\ listing.res.ts[1] # {}

\* C11: when ListOffers finds the query's row, it stamps queried_at with the
\* clock before it lists (the row carries the stamp when the result is handed
\* over); and when the stamp statement fails while the listing statement
\* works, the call still hands over the offers associated with the query, a
\* timestamp and no error.
C11_BestEffortStamp ==
    (listing.pc = "returned" /\ listing.qid # 0) =>
       /\ listing.qerr = <<>> =>
             \A q \in queries : q.id = listing.qid => q.queried_at = now
       /\ (listing.qerr # <<>> /\ listing.lerr = <<>>) =>
             /\ listing.res.err = <<>>
             /\ listing.res.ts # <<>>
             /\ listing.res.offers
                   = { o \in BagToSet(offers) :
                         \E r \in BagToSet(query_offers) :
                            r.query_id = listing.qid /\ r.offer_id = o.id }

\* The stamp statement has failed for a query last queried seven days ago,
\* and the call hands over the query's offer without an error.
C11_Witness ==
    /\ listing.pc = "returned" /\ listing.qid # 0
    /\ listing.qerr # <<>> /\ listing.res.err = <<>>
    /\ listing.res.offers # {}
    /\ \E q \in queries : q.id = listing.qid /\ q.queried_at < now

\* C12: the step of CreateQuery that inserts a row leaves, for every
\* registered source, exactly one job of the new query in the scheduler,
\* tagged with the query's keywords+location and with the source's name, and
\* no job of the query for anything else; and the start-up of a process
\* leaves exactly that for every row of the queries table, and no other
\* query job.
C12_OneJobPerPair ==
    [][/\ nextId' # nextId =>
             \A q \in queries' : q.id = nextId =>
                /\ \A name \in scrList :
                      /\ Cardinality({ jb \in jobs' : jb.qid = q.id
                                                      /\ jb.name = name }) = 1
                      /\ \A jb \in jobs' :
                            (jb.qid = q.id /\ jb.name = name) =>
                               jb.tags = { q.keywords \o q.location, name }
                /\ \A jb \in jobs' : jb.qid = q.id => jb.name \in scrList
       /\ (panicked /\ ~ panicked') =>
             /\ \A q \in queries' : \A name \in scrList :
                   /\ Cardinality({ jb \in jobs' : jb.qid = q.id
                                                   /\ jb.name = name }) = 1
                   /\ \A jb \in jobs' :
                         (jb.qid = q.id /\ jb.name = name) =>
                            jb.tags = { q.keywords \o q.location, name }
             /\ \A jb \in jobs' :
                   /\ jb.name \in scrList
                   /\ \E q \in queries' : q.id = jb.qid]_vars

\* A process has started over a table with one query and two sources: the
\* scheduler holds the two jobs start-up has registered.
C12_Witness ==
    /\ scrList = Scrapers
    /\ Cardinality(queries) = 1
    /\ Cardinality({ jb \in jobs : jb.call = 0 }) = 2

\* C13: every registered job of a query created at minute M of the hour
\* carries the expression "M * * * *", M written in decimal and between 0 and
\* 59; so all the jobs of a query carry the same expression, whichever
\* source they are for and whether CreateQuery or a start-up registered them.
C13_CronMinute ==
    \A jb \in cronjobs : \E q \in created : \E M \in 0 .. 59 :
       LET d == [i \in 0 .. 9 |->
                   CASE i = 0 -> "0" [] i = 1 -> "1" [] i = 2 -> "2"
                     [] i = 3 -> "3" [] i = 4 -> "4" [] i = 5 -> "5"
                     [] i = 6 -> "6" [] i = 7 -> "7" [] i = 8 -> "8"
                     [] i = 9 -> "9"]
       IN /\ q.id = jb.qid
          /\ q.created_at - 60 * (q.created_at \div 60) = M
          /\ jb.cron = (IF M < 10 THEN <<d[M]>>
                        ELSE <<d[M \div 10], d[M - 10 * (M \div 10)]>>)
                          \o <<" ", "*", " ", "*", " ", "*", " ", "*">>

\* A query created in the last minute of an hour and one created in the
\* first minute of the next are both registered for two sources, an hour
\* after the clock started.
C13_Witness ==
    /\ clock > 60
    /\ \E p, q \in created : p.created_at = 59 /\ q.created_at = 60
    /\ Cardinality(cronjobs) = 4
    /\ \E jb \in cronjobs : jb.cron[1] = "5" /\ jb.cron[2] = "9"

\* C14: a run of the prune task (at its daily tick, or as a process starts)
\* leaves no offer posted more than seven days before the clock, and leaves
\* every offer posted within the last seven days, with its associations, and
\* every row of the queries table as they were.
C14_PruneOldOffers ==
    [][(\/ panicked /\ ~ panicked'
        \/ \E o \in BagToSet(offers) : o \notin BagToSet(offers')) =>
          /\ \A o \in BagToSet(offers') : ~ (now' - o.posted_at > SevenDays)
          /\ \A o \in BagToSet(offers) :
                now - o.posted_at <= SevenDays =>
                   /\ o \in BagToSet(offers')
                   /\ CopiesIn(o, offers') = CopiesIn(o, offers)
                   /\ \A r \in BagToSet(query_offers) :
                         r.offer_id = o.id =>
                            /\ r \in BagToSet(query_offers')
                            /\ CopiesIn(r, query_offers')
                                  = CopiesIn(r, query_offers)
          /\ queries' = queries]_vars

\* Seven days after the clock started a run has ingested the offer posted
\* that day and the one posted eight days before, and the prune task has run
\* since: the first is still stored and associated, the second is gone.
C14_Witness ==
    \E w \in Workers :
       /\ now = SevenDays
       /\ runs[w].pc = "stamp" /\ Len(runs[w].offers) = 2
       /\ \E o \in BagToSet(offers) : o.id = "X" /\ o.posted_at = 0
       /\ \E r \in BagToSet(query_offers) :
             r.offer_id = "X" /\ r.query_id = runs[w].qid
       /\ ~ \E o \in BagToSet(offers) : o.id = "Y"
       /\ ~ \E r \in BagToSet(query_offers) : r.offer_id = "Y"

C21_Idempotent ==
    (closer.n > 1 /\ closer.pc = "idle") =>
        /\ sched = "stopped" /\ ctx = "cancelled"
        /\ \A w \in Workers : runs[w].pc = "free"
        /\ ~ pruning
        /\ closer.err = nil
        /\ ~ closer.waited

\* The step is one of the run in slot w.
StepOf(w) == runs'[w] # runs[w]

\* The offer the run in slot w is at.
OfferAt(w) == runs[w].offers[runs[w].i]

\* C27: in runQuery a CreateOffer or a CreateQueryOfferAssoc that fails for
\* one offer is only logged.  A CreateOffer that does not fail leaves its
\* offer in the table and goes on to the association; one that fails goes
\* on without it.  The association is executed only after a CreateOffer
\* that did not fail, and after it, failed or not, and after a failed
\* CreateOffer, the run goes on to the next offer of the batch, or to the
\* stamp after the last one.
C27_BatchGoesOn ==
    [][\A w \in Workers :
         /\ (StepOf(w) /\ runs[w].pc = "scrape" /\ runs'[w].pc # "free") =>
               /\ runs'[w].i = 1
               /\ runs'[w].pc = IF runs'[w].stmt = nil THEN "assoc"
                                ELSE "continue"
               /\ runs'[w].stmt = nil =>
                     \E o \in BagToSet(offers') :
                         o.id = runs'[w].offers[1].id
         /\ (StepOf(w) /\ runs[w].pc = "offer") =>
               /\ runs'[w].pc = IF runs'[w].stmt = nil THEN "assoc"
                                ELSE "continue"
               /\ runs'[w].stmt = nil =>
                     \E o \in BagToSet(offers') : o.id = OfferAt(w).id
         /\ (StepOf(w) /\ runs[w].pc = "assoc") =>
               /\ runs[w].stmt = nil
               /\ (runs'[w].stmt = nil /\
                      ForeignKeysHold(queries, offers, runs[w].qid,
                                      OfferAt(w).id)) =>
                     \E qo \in BagToSet(query_offers') :
                         /\ qo.query_id = runs[w].qid
                         /\ qo.offer_id = OfferAt(w).id
         /\ (StepOf(w) /\ runs[w].pc = "continue") =>
               /\ runs[w].stmt # nil
               /\ query_offers' = query_offers
         /\ (StepOf(w) /\ runs[w].pc \in { "assoc", "continue" }) =>
               IF runs[w].i < Len(runs[w].offers)
               THEN runs'[w].pc = "offer" /\ runs'[w].i = runs[w].i + 1
               ELSE runs'[w].pc = "stamp"]_vars

\* A run has finished a batch of two offers: the CreateOffer of the first
\* failed, the second is stored and associated.
C27_Witness ==
    /\ conn = "flaky" /\ ~ Cancelled
    /\ \E w \in Workers :
         /\ runs[w].pc = "stamp" /\ Len(runs[w].offers) = 2
         /\ ~ \E o \in BagToSet(offers) : o.id = runs[w].offers[1].id
         /\ \E o \in BagToSet(offers) : o.id = runs[w].offers[2].id
         /\ \E qo \in BagToSet(query_offers) :
               qo.query_id = runs[w].qid
               /\ qo.offer_id = runs[w].offers[2].id

\* C28: when a run executes the association of an offer, the
\* query and the offer it refers to exist, whatever has interleaved with the
\* run: the insert hits no foreign-key violation.
C28_NoForeignKeyViolation ==
    [][\A w \in Workers :
         (StepOf(w) /\ runs[w].pc = "assoc") =>
             ForeignKeysHold(queries, offers, runs[w].qid, OfferAt(w).id)]_vars

\* The status rows of the (query, source) pair of run w.
StatusOf(tbl, w) ==
    { s \in Rows(tbl) : s.query_id = runs[w].qid
                         /\ s.scraper_name = runs[w].name }

\* C29: in a process that is running, a run whose source returned no offer returns at once and leaves
\* every scraped_at as it is; a run whose source returned an offer goes
\* through its offers without touching the status table and then, whether or
\* not its inserts added a row, sets the scraped_at of the status row of its
\* (query, source) pair to now and leaves the other pairs alone.
C29_ScrapedAt ==
    [][\A w \in Workers :
         /\ (Live /\ StepOf(w) /\ runs[w].pc = "scrape") =>
               /\ status' = status
               /\ runs'[w] = NoRun \/ Len(runs'[w].offers) > 0
         /\ (Live /\ StepOf(w)
               /\ runs[w].pc \in { "offer", "assoc", "continue" }) =>
               /\ status' = status
               /\ runs'[w] # NoRun
         /\ (Live /\ StepOf(w) /\ runs[w].pc = "stamp") =>
               /\ Len(runs[w].offers) > 0
               /\ runs'[w] = NoRun
               /\ StatusOf(status', w)
                     = { [s EXCEPT !.scraped_at = Some(now)] :
                           s \in StatusOf(status, w) }
               /\ Rows(status) \ StatusOf(status, w)
                     = Rows(status') \ StatusOf(status', w)]_vars

\* Both sources of a query have been scraped today and one offer is stored,
\* once, and associated with the query: the later of the two runs has set
\* its scraped_at after inserts that added no row.
C29_Witness ==
    \E q \in queries :
        /\ \A n \in scrList :
              \E s \in Rows(status) : /\ s.query_id = q.id
                                      /\ s.scraper_name = n
                                      /\ s.scraped_at = Some(now)
        /\ Cardinality(scrList) = 2
        /\ \E o \in Rows(offers) :
              /\ offers = SetToBag({ o })
              /\ ~ (o.posted_at < now - SevenDays)
              /\ \E qo \in Rows(query_offers) :
                    /\ query_offers = SetToBag({ qo })
                    /\ qo.query_id = q.id /\ qo.offer_id = o.id

\* C30: the table never holds two status rows for one (query, source)
\* pair.  A call of GetQueryScraper whose query exists leaves exactly one row
\* for its pair: the first call creates it with a null scraped_at, and a
\* call that finds the row, before or after its own read, leaves the table
\* as it is, scraped_at included.
C30_OneStatusRow ==
    [][/\ \A s \in Rows(status') :
            /\ status'[s] = 1
            /\ \A t \in Rows(status') :
                  (t.query_id = s.query_id
                   /\ t.scraper_name = s.scraper_name) => t = s
       /\ \A w \in Workers :
            (Live /\ StepOf(w) /\ runs[w].pc = "get"
                  /\ \E q \in queries : q.id = runs[w].qid) =>
               /\ Cardinality(StatusOf(status', w)) = 1
               /\ IF StatusOf(status, w) = {}
                  THEN \A s \in StatusOf(status', w) : s.scraped_at = NULL
                  ELSE status' = status]_vars

\* A call that found no row when it read is about to insert, and the row of
\* its pair is there: an overlapping call has created it, and a run has set
\* its scraped_at since.
C30_Witness ==
    \E w \in Workers :
        /\ runs[w].pc = "get" /\ ~ runs[w].seen
        /\ \E s \in StatusOf(status, w) : s.scraped_at # NULL

\* The call of c is one whose scheduleQuery had a job rejected.
Rejected(cs, c) == "rejected" \in DOMAIN cs[c]

\* C31: when NewJob rejects the job of some scrapers, the query row is
\* created and stays, the job of every other scraper of the list is
\* registered with the options of the call, and the caller leaves its
\* select (with nil or ErrTimedOut) unless the process dies first.
C31_RejectedJobLogged ==
    /\ [][\A c \in Callers :
            (Rejected(calls', c) /\ ~ Rejected(calls, c)) =>
               /\ \E q \in queries' : q.id = calls'[c].qid
               /\ \A n \in scrList \ calls'[c].rejected :
                     \E jb \in jobs' : /\ jb.qid = calls'[c].qid
                                       /\ jb.name = n
                                       /\ jb.call = c /\ jb.initial]_vars
    /\ [][\A c \in Callers : \A q \in queries :
            (Rejected(calls, c) /\ q.id = calls[c].qid) => q \in queries']_vars
    /\ \A c \in Callers :
          (Rejected(calls, c) /\ calls[c].status = "waiting")
             ~> (panicked \/ (/\ calls[c].status = "returned"
                              /\ calls[c].err \in { nil, ErrTimedOut }))

\* A call one of whose two jobs was rejected has returned ErrTimedOut, and
\* the run of the other job has completed before.
C31_Witness ==
    \E c \in Callers :
        /\ Rejected(calls, c)
        /\ calls[c].status = "returned" /\ calls[c].err = ErrTimedOut
        /\ Cardinality(calls[c].rejected) = 1
        /\ calls[c].wg = 1
        /\ \E q \in queries : q.id = calls[c].qid

\* C32: a caller that is in the select of CreateQuery when the context is
\* cancelled leaves the select without the timer of the select firing.
C32_ReleasedOnCancel ==
    \A c \in Callers :
        (Cancelled /\ calls[c].status = "waiting")
           ~> (panicked \/ calls[c].status # "waiting")

\* C33: the gauge of every label set is the number of jobs registered under
\* it (one increment for each job scheduled, one decrement for each job
\* removed); so every label set of a query that was scheduled and has
\* expired is back at 0.
C33_GaugeBalanced ==
    \A lbl \in DOMAIN gauge :
        gauge[lbl] =
            Cardinality({ jb \in jobs :
                            \E q \in queries :
                                /\ q.id = jb.qid
                                /\ ScheduledLabels(q, jb.name, lbl[3]) = lbl })

\* C34: the counter of the WaitGroup of a call of CreateQuery is never
\* negative, whatever runs of the jobs the call registered fire the
\* listener.
C34_WaitCounter ==
    \A c \in Callers : "wg" \in DOMAIN calls[c] => calls[c].wg >= 0

\* C35: when a run removes the jobs of the unused query it has deleted, the
\* jobs of every other query that is in the table stay registered.
C35_RemovesOwnJobsOnly ==
    [][\A w \in Workers :
         (Live /\ StepOf(w) /\ runs[w].pc = "remove") =>
            \A jb \in jobs :
               (jb.qid # runs[w].qid /\ \E q \in queries : q.id = jb.qid)
                  => jb \in jobs']_vars

\* C36: a run deletes no query whose queried_at is seven days old or less
\* at the time of the delete, whatever ListOffers has done since the run
\* read the row.
C36_FreshQueryKept ==
    [][\A w \in Workers : \A q \in queries :
         (Live /\ StepOf(w) /\ runs[w].pc = "delete"
               /\ q.id = runs[w].qid /\ q \notin queries')
            => now - q.queried_at > SevenDays]_vars

\* C37: every query in the table has its job registered for every scraper
\* of the list, unless a run that has deleted it, or has failed to, is
\* still on its way to RemoveByTags.
C37_PersistedQueryScheduled ==
    \A q \in queries : \A n \in scrList :
        \/ \E jb \in jobs : jb.qid = q.id /\ jb.name = n
        \/ panicked

\* C38: every row of query_offers refers to a query and to an offer that
\* are in their tables.
C38_NoDanglingAssoc ==
    \A qo \in Rows(query_offers) :
        /\ \E q \in queries : q.id = qo.query_id
        /\ \E o \in Rows(offers) : o.id = qo.offer_id

\* A run of day 7 went through a batch of offers for a query that is still
\* in the table on day 8; the pruner has run since, and neither an offer nor
\* an association is left.
C38_Witness ==
    /\ now = 8
    /\ offers = EmptyBag /\ query_offers = EmptyBag
    /\ \E q \in queries : \E s \in Rows(status) :
          /\ s.query_id = q.id
          /\ s.scraped_at = Some(7)

----------------------------------------------------------------------------
(* Properties of the retrying HTTP client *)

\* C15: Do never makes more than max_retries + 1 = 6 attempts; when it has
\* returned after an answer with a retryable status (as it must against a
\* server that only gives such answers), it has either made exactly 6
\* attempts and returns an error that wraps ErrRetryable and carries the
\* status of the last answer, or the request was cancelled before that.
C15_SixAttempts ==
    /\ server.calls <= 6
    /\ (do.pc = "done" /\ server.last \in client.isRetryable) =>
          \/ /\ server.calls = 6
             /\ \E i \in 1 .. Len(do.err) :
                   SubSeq(do.err, i, Len(do.err)) = <<"too many retries">>
             /\ do.code = server.last
          \/ /\ server.calls < 6
             /\ req.ctx = "cancelled"
             /\ do.err = <<"retryhttp.Do ctx cancelled", "context canceled">>

\* Do has returned the error of the exhausted retries, with the status 503
\* of the sixth answer, on a request that was never cancelled.
C15_Witness ==
    /\ do.pc = "done" /\ req.ctx = "live"
    /\ server.calls = 6 /\ server.last = 503
    /\ do.err = <<"with status code", "too many retries">>
    /\ do.code = 503

\* C16: an answer whose status is not in the client's retryable set ends Do:
\* Do is never waiting or attempting again after one, and it returns that
\* response and no error; when it was the first answer, one attempt has been
\* made.
C16_OneAttempt ==
    (server.calls > 0 /\ server.last # 0
     /\ server.last \notin client.isRetryable) =>
       /\ do.pc = "done"
       /\ do.resp = server.last /\ do.err = <<>>
       /\ server.calls = do.retries + 1
       /\ do.retries = 0 => server.calls = 1

\* Do has returned the 400 a default client was answered at its one attempt.
C16_Witness ==
    /\ do.pc = "done" /\ do.resp = 400 /\ do.err = <<>>
    /\ server.calls = 1 /\ client.extra = {}

\* C17: every attempt reads the bytes the request was built with: the
\* server has read one body per call, and each of them is those bytes.
C17_SameBody ==
    /\ Len(server.bodies) = server.calls
    /\ \A i \in 1 .. Len(server.bodies) : server.bodies[i] = req.content

\* Six attempts have read the two bytes of the request's body.
C17_Witness ==
    /\ server.calls = 6 /\ Len(req.content) = 2
    /\ server.bodies[6] = <<"c", "u">>

\* C18: the client's retryable set is {408, 425, 429, 500, 502, 503, 504}
\* and the statuses its option named, nothing else; and an answer is retried
\* (Do waits for the next attempt, or has given up at the sixth) exactly
\* when its status is in that set: any other answer is returned.
C18_RetryableSet ==
    /\ client.isRetryable
          = { 408, 425, 429, 500, 502, 503, 504 } \cup client.extra
    /\ (server.calls > 0 /\ server.last # 0 /\ do.pc # "attempt") =>
          (server.last \in { 408, 425, 429, 500, 502, 503, 504 }
                            \cup client.extra
             <=> \/ do.pc = "wait"
                 \/ do.pc = "done" /\ do.err # <<>>)

\* A client made with the option for 400 waits to retry a 400, and 403, not
\* named, is not in its set.
C18_Witness ==
    /\ client.extra = { 400 } /\ 403 \notin client.isRetryable
    /\ do.pc = "wait" /\ server.last = 400 /\ server.calls = 1

\* C19: when the request's context is cancelled while Do waits and the timer
\* of the wait has not fired, the next step of Do is to return the
\* cancellation error, without a response; no attempt is made.
C19_CancelledWait ==
    [][(do.pc = "wait" /\ req.ctx = "cancelled" /\ do.wake # "timer") =>
          /\ server' = server
          /\ do'.pc # "attempt"
          /\ do'.pc = "done" =>
                /\ do'.resp = 0
                /\ \E i \in 1 .. Len(do'.err) :
                      SubSeq(do'.err, i, Len(do'.err))
                         = <<"context canceled">>]_vars

\* Do has returned the cancellation error after three attempts.
C19_Witness ==
    /\ do.pc = "done" /\ req.ctx = "cancelled"
    /\ do.err = <<"retryhttp.Do ctx cancelled", "context canceled">>
    /\ server.calls = 3 /\ do.retries = 3

----------------------------------------------------------------------------
(* Properties of the fan-out Scrape *)

RECURSIVE Concat(_, _)
Concat(srcs, i) ==
    IF i > Len(srcs) THEN <<>> ELSE srcs[i].offers \o Concat(srcs, i + 1)

BagOfSeq(sq) ==
    [x \in { sq[i] : i \in DOMAIN sq } |->
        Cardinality({ i \in DOMAIN sq : sq[i] = x })]

\* C22: what the fan-out Scrape returns is the concatenation of the offers
\* of all its sources, in the order the sources were received: the same
\* offers, each as often, under every interleaving, the offers of a source
\* that also returned an error included.
C22_AllOffers ==
    ret.pc = "returned" =>
        BagOfSeq(ret.offers) = BagOfSeq(Concat(sources, 1))

\* C23: the fan-out Scrape returns nil when no source failed; when a source
\* failed it returns a combined error, and errors.Is finds in it the error
\* of every source that failed, ErrRetryable among them.
C23_CombinedError ==
    ret.pc = "returned" =>
        /\ (\A i \in DOMAIN sources : sources[i].err = nil) => ret.err = nil
        /\ \A i \in DOMAIN sources :
              sources[i].err # nil =>
                /\ ret.err # nil
                /\ CombinedIs(ret.err, sources[i].err)
                /\ ErrorsIs(sources[i].err, ErrRetryable) =>
                      CombinedIs(ret.err, ErrRetryable)

\* C39: whatever the sources return, every source goroutine gets through
\* its sends and Scrape returns.
C39_ScrapeTerminates ==
    <>(ret.pc = "returned" /\ \A i \in DOMAIN fan : fan[i] = "done")

\* Scrape has returned with two sources of which one returned offers and
\* an error and the other an error.
C39_Witness ==
    /\ ret.pc = "returned"
    /\ DOMAIN fan = 1 .. 2
    /\ \A i \in DOMAIN fan : sources[i].err # nil
    /\ \E i \in DOMAIN fan : Len(sources[i].offers) > 0

----------------------------------------------------------------------------
(* Properties of the Stepstone adapter *)

\* C40: the loop goes on to a further page only when the response it has
\* just had announces more pages than the one fetched: after a response
\* whose pageCount is the page number, is 0 or is smaller than the page
\* number, it fetches no more.
C40_PaginationStops ==
    (pager.pc = "loop" /\ pager.i # 1) => pager.i <= pager.pageCount

----------------------------------------------------------------------------
(* Properties of the Glassdoor adapter *)

\* C24: glassdoor receives at most one location request for a term,
\* however the calls of fetchLocation for the term interleave (requests
\* that were answered with no location, and so cached nothing, set aside),
\* and a call that finds the term cached sends no request.
C24_OneLookup ==
    /\ \A l \in Locations :
          upstream[l].failed = 0 => upstream[l].calls <= 1
    /\ \A g \in Lookers :
          (lookup[g].pc = "returned" /\ lookup[g].cached)
              => ~ lookup[g].called

----------------------------------------------------------------------------
(* Properties of the HTTP boundary *)

Normalised(v) ==
    /\ MatchString(v)
    /\ Head(v) # " " /\ v[Len(v)] # " "
    /\ \A i \in DOMAIN v : v[i] \notin UpperChars

\* C26: the keywords and the location of every call the boundary makes to
\* CreateQuery or ListOffers match ^[A-Za-z0-9 ]+$, have no space at either
\* end and no upper-case letter; a request with a parameter that is missing
\* or does not match is answered 400 and makes no call.
C26_ValidatedParams ==
    /\ \A i \in DOMAIN passed :
          Normalised(passed[i].keywords) /\ Normalised(passed[i].location)
    /\ (handling.pc = "done" /\
          \E p \in { "keywords", "location" } :
              ~ MatchString(httpReq.form[p]))
            => httpResp.status = 400 /\ passed = <<>>

====
